---- MODULE Spec2Model ----
(***************************************************************************)
(* puppeteerProcessor (src/jobs/processors/puppeteerProcessor.js): the      *)
(* action interpreter and the pagination controller of one job invocation,  *)
(* as a state machine whose steps are the function's suspension points.     *)
(* The browser driver is the environment: every driver call answers with    *)
(* one of the outcomes the driver can produce, chosen nondeterministically. *)
(* The specification Worker puts the queue worker's callback (startWorker,  *)
(* src/unnamed/part_003) around the invocation.                             *)
(***************************************************************************)
EXTENDS Integers, Sequences, FiniteSets, TLC

VARIABLES
    cfg,          \* job.data, fixed for the invocation
    pc,           \* position of the invocation inside puppeteerProcessor
    browser,      \* the variable `browser`: "null", "open" or "closed"
    currentPage,  \* the variable `currentPage`
    allResults,   \* the array `allResults`
    scrapedData,  \* processPage's `scrapedData` of the page being interpreted
    ai,           \* 1-based position of processPage's for-loop in cfg.actions
    pageError,    \* message of the error travelling to the per-page catch
    fatalError,   \* message of the error travelling to the outer catch
    outcome,      \* how the call ended: "none", "returned" or "threw"
    thrown,       \* message of the error the call threw
    jobResult,    \* the object the call returned
    site,         \* driver side: which view of the site the page shows (0 = blank)
    hist,         \* history of the invocation (observations only, never read by the code)
    runs,         \* two invocations side by side: each one's continuation and record
    frames,       \* two invocations side by side: where `browser`, `allResults`, `currentPage` live
    handles,      \* two invocations side by side: the browsers the driver has launched
    attempt       \* the queue worker's processing attempt around the invocation (startWorker)

\* The variables of the single invocation and of the two invocations side by side.
jobVars == <<cfg, pc, browser, currentPage, allResults, scrapedData, ai, pageError,
             fatalError, outcome, thrown, jobResult, site, hist>>
twoVars == <<runs, frames, handles>>

vars == <<cfg, pc, browser, currentPage, allResults, scrapedData, ai, pageError,
          fatalError, outcome, thrown, jobResult, site, hist, runs, frames, handles, attempt>>

-----------------------------------------------------------------------------
(* Bounds of the model *)

\* longest action list of the interpreter configurations
MaxActions == 2
\* largest configured pagination.maxPages of the pagination configurations
MaxPages == 3

-----------------------------------------------------------------------------
(* JavaScript values *)

Undefined == [t |-> "undefined", v |-> 0]
Null == [t |-> "null", v |-> 0]
NaN == [t |-> "nan", v |-> 0]
Num(n) == [t |-> "number", v |-> n]
Str(s) == [t |-> "string", v |-> s]
Bool(b) == [t |-> "boolean", v |-> b]
Arr(s) == [t |-> "array", v |-> s]
Obj(r) == [t |-> "object", v |-> r]

\* typeof x
TypeOf(x) ==
    CASE x.t = "undefined" -> "undefined"
      [] x.t \in {"number", "nan"} -> "number"
      [] x.t = "string" -> "string"
      [] x.t = "boolean" -> "boolean"
      [] OTHER -> "object"

\* An empty array is taken to be falsy.
Truthy_EmptyArrayFalsy(x) ==
    CASE x.t \in {"undefined", "null", "nan"} -> FALSE
      [] x.t = "number" -> x.v # 0
      [] x.t = "string" -> x.v # ""
      [] x.t = "boolean" -> x.v
      [] x.t = "array" -> x.v # <<>>
      [] OTHER -> TRUE

\* ToBoolean(x), the test behind !x, x && y and x || y
Truthy(x) ==
    CASE x.t \in {"undefined", "null", "nan"} -> FALSE
      [] x.t = "number" -> x.v # 0
      [] x.t = "string" -> x.v # ""
      [] x.t = "boolean" -> x.v
      [] OTHER -> TRUE

\* Array.isArray(x)
IsArray(x) == x.t = "array"

\* The characters of the strings whose content the code inspects.
Chars(s) ==
    CASE s = "" -> <<>>
      [] s = "http://a" -> <<"h","t","t","p",":","/","/","a">>
      [] s = "https://a" -> <<"h","t","t","p","s",":","/","/","a">>
      [] s = "ftp://a" -> <<"f","t","p",":","/","/","a">>
      [] s = "a.io" -> <<"a",".","i","o">>
      [] s = "httpx://a" -> <<"h","t","t","p","x",":","/","/","a">>
      [] s = " http://a" -> <<" ","h","t","t","p",":","/","/","a">>
      [] s = "timeout" -> <<"t","i","m","e","o","u","t">>
      [] s = "Navigation timeout of 30000 ms exceeded" -> <<"N","a","v","i","g","a","t","i","o","n"," ","t","i","m","e","o","u","t"," ","o","f"," ","3","0","0","0","0"," ","m","s"," ","e","x","c","e","e","d","e","d">>
      [] s = "net::ERR_CONNECTION_REFUSED" -> <<"n","e","t",":",":","E","R","R","_","C","O","N","N","E","C","T","I","O","N","_","R","E","F","U","S","E","D">>
      [] s = "waiting for selector failed: timeout 5000ms exceeded" -> <<"w","a","i","t","i","n","g"," ","f","o","r"," ","s","e","l","e","c","t","o","r"," ","f","a","i","l","e","d",":"," ","t","i","m","e","o","u","t"," ","5","0","0","0","m","s"," ","e","x","c","e","e","d","e","d">>
      [] s = "Node is detached from document" -> <<"N","o","d","e"," ","i","s"," ","d","e","t","a","c","h","e","d"," ","f","r","o","m"," ","d","o","c","u","m","e","n","t">>
      [] s = "Execution context was destroyed" -> <<"E","x","e","c","u","t","i","o","n"," ","c","o","n","t","e","x","t"," ","w","a","s"," ","d","e","s","t","r","o","y","e","d">>
      [] s = "Evaluation failed" -> <<"E","v","a","l","u","a","t","i","o","n"," ","f","a","i","l","e","d">>
      [] s = "Unable to capture screenshot" -> <<"U","n","a","b","l","e"," ","t","o"," ","c","a","p","t","u","r","e"," ","s","c","r","e","e","n","s","h","o","t">>
      [] s = "Selector required for click action" -> <<"S","e","l","e","c","t","o","r"," ","r","e","q","u","i","r","e","d"," ","f","o","r"," ","c","l","i","c","k"," ","a","c","t","i","o","n">>
      [] s = "Selector and text required for type action" -> <<"S","e","l","e","c","t","o","r"," ","a","n","d"," ","t","e","x","t"," ","r","e","q","u","i","r","e","d"," ","f","o","r"," ","t","y","p","e"," ","a","c","t","i","o","n">>
      [] s = "Selector required for extract action" -> <<"S","e","l","e","c","t","o","r"," ","r","e","q","u","i","r","e","d"," ","f","o","r"," ","e","x","t","r","a","c","t"," ","a","c","t","i","o","n">>
      [] s = "Selector required for waitForSelector action" -> <<"S","e","l","e","c","t","o","r"," ","r","e","q","u","i","r","e","d"," ","f","o","r"," ","w","a","i","t","F","o","r","S","e","l","e","c","t","o","r"," ","a","c","t","i","o","n">>
      [] s = "Script required for evaluate action" -> <<"S","c","r","i","p","t"," ","r","e","q","u","i","r","e","d"," ","f","o","r"," ","e","v","a","l","u","a","t","e"," ","a","c","t","i","o","n">>
      [] s = "Unknown action type: hover" -> <<"U","n","k","n","o","w","n"," ","a","c","t","i","o","n"," ","t","y","p","e",":"," ","h","o","v","e","r">>
      [] s = "Unknown action type: timeout" -> <<"U","n","k","n","o","w","n"," ","a","c","t","i","o","n"," ","t","y","p","e",":"," ","t","i","m","e","o","u","t">>
      [] s = "scrapedData.errors.push is not a function" -> <<"s","c","r","a","p","e","d","D","a","t","a",".","e","r","r","o","r","s",".","p","u","s","h"," ","i","s"," ","n","o","t"," ","a"," ","f","u","n","c","t","i","o","n">>

\* s.startsWith(p), on characters
StartsWith(s, p) ==
    /\ Len(p) <= Len(s)
    /\ \A i \in 1..Len(p) : s[i] = p[i]

\* s.includes(p), on characters
Includes(s, p) ==
    \E k \in 0..(Len(s) - Len(p)) : \A i \in 1..Len(p) : s[k + i] = p[i]

\* /^https?:\/\//.test(url)
MatchesHttpScheme(url) ==
    \/ StartsWith(Chars(url), <<"h","t","t","p",":","/","/">>)
    \/ StartsWith(Chars(url), <<"h","t","t","p","s",":","/","/">>)

\* a function extended or overwritten at one key: obj[k] = x
Put(obj, k, x) == [key \in DOMAIN obj \cup {k} |-> IF key = k THEN x ELSE obj[key]]

\* { ...a, ...b }: the keys of b win
Spread(a, b) == [key \in DOMAIN a \cup DOMAIN b |-> IF key \in DOMAIN b THEN b[key] ELSE a[key]]

\* {}
EmptyObject == [key \in {} |-> Undefined]

-----------------------------------------------------------------------------
(* Actions of a job configuration *)

\* An entry of job.data.actions. selector, name, ifTextContains: "" when not
\* given; delayAfter: 0 when not given; text: whether action.text is a string;
\* script: whether action.script is given.
BaseAction ==
    [isNull |-> FALSE, type |-> Str("click"), selector |-> ".item", name |-> "",
     critical |-> FALSE, ifExists |-> FALSE, ifNotExists |-> FALSE,
     ifTextContains |-> "", optional |-> FALSE, delayAfter |-> 0,
     text |-> FALSE, script |-> FALSE, toBottom |-> FALSE, toSelector |-> FALSE]

Click(critical) == [BaseAction EXCEPT !.selector = ".btn", !.critical = critical]
Extract(name, critical) == [BaseAction EXCEPT !.type = Str("extract"), !.name = name, !.critical = critical]
Evaluate(name) == [BaseAction EXCEPT !.type = Str("evaluate"), !.selector = "", !.name = name, !.script = TRUE]
OtherKind(kind, critical) == [BaseAction EXCEPT !.type = Str(kind), !.critical = critical]
NoKind == [BaseAction EXCEPT !.type = Undefined]
NumberKind == [BaseAction EXCEPT !.type = Num(1)]
NullAction == [BaseAction EXCEPT !.isNull = TRUE]
Screenshot(name) == [BaseAction EXCEPT !.type = Str("screenshot"), !.selector = "", !.name = name]

\* The fields of action.condition and the post-action delay, set on an action.
Optional(action) == [action EXCEPT !.optional = TRUE]
IfExists(action) == [action EXCEPT !.ifExists = TRUE]
IfNotExists(action) == [action EXCEPT !.ifNotExists = TRUE]
IfTextContains(action, text) == [action EXCEPT !.ifTextContains = text]
DelayAfter(action, ms) == [action EXCEPT !.delayAfter = ms]

\* The kinds executeAction's switch has a case for.
RecognizedKinds ==
    {"click", "type", "extract", "waitForSelector", "delay", "screenshot", "scroll", "evaluate"}

-----------------------------------------------------------------------------
(* The driver's answers to one executeAction call *)

\* Messages of the driver's failures.
WaitFailures == {"waiting for selector failed: timeout 5000ms exceeded"}

KindFailure(kind) ==
    CASE kind \in {"click", "type"} -> "Node is detached from document"
      [] kind = "screenshot" -> "Unable to capture screenshot"
      [] kind \in {"extract", "evaluate", "scroll"} -> "Evaluation failed"
      [] OTHER -> "Execution context was destroyed"

\* What page.$$eval's mapping and page.evaluate can hand back.
ExtractValues == {Arr(<<>>), Arr(<<Str("a"), Str("b")>>)}
EvaluateValues == {Num(7), Num(0)}

\* exists: page.$(selector) found an element; textHas: its textContent includes
\* condition.ifTextContains; wait: "" when page.waitForSelector resolved, else
\* the message of its rejection; op: the same for the kind's own driver call;
\* value: what that call resolved to; shot: the same as op for the screenshot
\* taken after a failure when screenshots are enabled (save).
EnvResponses(action, save) ==
    LET kind == IF TypeOf(action.type) = "string" THEN action.type.v ELSE ""
        looksUp == /\ action.selector # ""
                   /\ (action.ifExists \/ action.ifNotExists \/ action.ifTextContains # "")
        waits == kind \in {"click", "type", "extract", "waitForSelector"} /\ action.selector # ""
        calls == kind \in (RecognizedKinds \ {"waitForSelector"})
    IN  [exists : IF looksUp THEN BOOLEAN ELSE {TRUE},
         textHas : IF looksUp /\ action.ifTextContains # "" THEN BOOLEAN ELSE {TRUE},
         wait : IF waits THEN {""} \cup WaitFailures ELSE {""},
         op : IF calls THEN {"", KindFailure(kind)} ELSE {""},
         value : CASE kind = "extract" -> ExtractValues
                   [] kind = "evaluate" -> EvaluateValues
                   [] OTHER -> {Undefined},
         shot : IF save /\ (waits \/ calls \/ kind \notin RecognizedKinds)
                THEN {"", "Unable to capture screenshot"} ELSE {""}]

-----------------------------------------------------------------------------
(* executeAction *)

Returns(x) == [kind |-> "return", value |-> x, message |-> ""]
Throws(m) == [kind |-> "throw", value |-> Undefined, message |-> m]

\* The switch of executeAction, lines 295-402.
Dispatch(action, r) ==
    LET type == action.type.v
        selector == action.selector
    IN  CASE type = "click" ->
               IF selector = "" THEN Throws("Selector required for click action")
               ELSE IF r.wait # "" THEN Throws(r.wait)
               ELSE IF r.op # "" THEN Throws(r.op)
               ELSE Returns(Null)
          [] type = "type" ->
               IF selector = "" \/ ~action.text THEN Throws("Selector and text required for type action")
               ELSE IF r.wait # "" THEN Throws(r.wait)
               ELSE IF r.op # "" THEN Throws(r.op)
               ELSE Returns(Null)
          [] type = "extract" ->
               IF selector = "" THEN Throws("Selector required for extract action")
               ELSE IF r.wait # "" THEN (IF action.optional THEN Returns(Arr(<<>>)) ELSE Throws(r.wait))
               ELSE IF r.op # "" THEN Throws(r.op)
               ELSE Returns(r.value)
          [] type = "waitForSelector" ->
               IF selector = "" THEN Throws("Selector required for waitForSelector action")
               ELSE IF r.wait # "" THEN Throws(r.wait)
               ELSE Returns(Null)
          [] type = "delay" ->
               IF r.op # "" THEN Throws(r.op) ELSE Returns(Null)
          [] type = "screenshot" ->
               IF r.op # "" THEN Throws(r.op) ELSE Returns(Str("screenshot.png"))
          [] type = "scroll" ->
               IF r.op # "" THEN Throws(r.op) ELSE Returns(Null)
          [] type = "evaluate" ->
               IF ~action.script THEN Throws("Script required for evaluate action")
               ELSE IF r.op # "" THEN Throws(r.op)
               ELSE Returns(r.value)
          [] OTHER -> Throws("Unknown action type: " \o type)

\* executeAction(page, action): the three condition checks, then the switch.
ExecuteAction(action, r) ==
    IF action.ifExists /\ action.selector # "" /\ ~r.exists THEN Returns(Null)
    ELSE IF action.ifNotExists /\ action.selector # "" /\ r.exists THEN Returns(Null)
    ELSE IF action.ifTextContains # "" /\ action.selector # "" /\ r.exists /\ ~r.textHas
         THEN Returns(Null)
    ELSE Dispatch(action, r)

-----------------------------------------------------------------------------
(* processPage: the body of its for-loop for one action *)

\* The `!action` half of the guard is left out.
IsInvalidAction_TypeOnly(action) == TypeOf(action.type) # "string"

\* The guard of lines 212-215: the entry is no action and is passed over.
IsInvalidAction(action) == action.isNull \/ TypeOf(action.type) # "string"

\* The record pushed to scrapedData.errors, lines 233-238.
ErrorRecord(index, action, message) ==
    Obj([actionIndex |-> index - 1, action |-> action.type.v,
         selector |-> action.selector, message |-> message])

\* Whether the failure of this action is re-thrown, line 247.
Rethrows(action) == action.critical

\* The screenshot of line 243 has no catch: its rejection leaves the for-loop.
InterpretAction_ShotFatal(data, index, action, r, save) ==
    IF IsInvalidAction(action)
    THEN [data |-> data, error |-> "", dispatched |-> FALSE, shots |-> 0, delay |-> FALSE]
    ELSE LET res == ExecuteAction(action, r)
         IN  IF res.kind = "return"
             THEN [data |-> IF Truthy(res.value) /\ action.name # ""
                            THEN Put(data, action.name, res.value)
                            ELSE data,
                   error |-> "", dispatched |-> TRUE, shots |-> 0,
                   delay |-> action.delayAfter # 0]
             ELSE LET old == IF "errors" \in DOMAIN data /\ Truthy(data["errors"])
                             THEN data["errors"] ELSE Arr(<<>>)
                  IN  IF ~IsArray(old)
                      THEN [data |-> Put(data, "errors", old),
                            error |-> "scrapedData.errors.push is not a function",
                            dispatched |-> TRUE, shots |-> 0, delay |-> FALSE]
                      ELSE [data |-> Put(data, "errors",
                                         Arr(Append(old.v, ErrorRecord(index, action, res.message)))),
                            error |-> IF save /\ r.shot # "" THEN r.shot
                                      ELSE IF Rethrows(action) THEN res.message ELSE "",
                            dispatched |-> TRUE, shots |-> IF save THEN 1 ELSE 0,
                            delay |-> FALSE]

\* One pass of the loop body, lines 212-250, on the action at 1-based `index`.
\* data: scrapedData afterwards; error: "" or the message of the error that
\* leaves the loop; dispatched: whether executeAction was called; shots: how
\* many screenshots were asked of the driver; delay: whether the post-action
\* delay of lines 226-228 was applied (page.waitForTimeout is a timer and
\* resolves).
InterpretAction(data, index, action, r, save) ==
    IF IsInvalidAction(action)
    THEN [data |-> data, error |-> "", dispatched |-> FALSE, shots |-> 0, delay |-> FALSE]
    ELSE LET res == ExecuteAction(action, r)
         IN  IF res.kind = "return"
             THEN [data |-> IF Truthy(res.value) /\ action.name # ""
                            THEN Put(data, action.name, res.value)
                            ELSE data,
                   error |-> "", dispatched |-> TRUE, shots |-> 0,
                   delay |-> action.delayAfter # 0]
             ELSE LET old == IF "errors" \in DOMAIN data /\ Truthy(data["errors"])
                             THEN data["errors"] ELSE Arr(<<>>)
                  IN  IF ~IsArray(old)
                      THEN [data |-> Put(data, "errors", old),
                            error |-> "scrapedData.errors.push is not a function",
                            dispatched |-> TRUE, shots |-> 0, delay |-> FALSE]
                      ELSE [data |-> Put(data, "errors",
                                         Arr(Append(old.v, ErrorRecord(index, action, res.message)))),
                            error |-> IF Rethrows(action) THEN res.message ELSE "",
                            dispatched |-> TRUE, shots |-> IF save THEN 1 ELSE 0,
                            delay |-> FALSE]

-----------------------------------------------------------------------------
(* Job configurations *)

\* What a caller may pass as url: nothing, null, '', a non-string, strings
\* without the scheme, and well-formed URLs.
UrlInputs ==
    {Undefined, Null, Str(""), Bool(TRUE), Str("ftp://a"), Str("a.io"), Str("httpx://a"),
     Str(" http://a"), Str("http://a"), Str("https://a")}

\* What a caller may pass as pagination.maxPages.
MaxPagesInputs ==
    {Undefined, Num(0), Num(-1), NaN, Str("2"), Bool(TRUE)} \cup {Num(n) : n \in 1..MaxPages}

\* The actions the interpreter configurations draw their lists from.
ActionPool ==
    {Click(FALSE), Click(TRUE), Extract("items", FALSE), OtherKind("hover", FALSE),
     NoKind, NullAction, Evaluate("page"), Evaluate("error")}

ActionLists == UNION {[1..n -> ActionPool] : n \in 1..MaxActions}

\* job.data with the destructuring defaults of lines 23-32 applied.
BaseConfig ==
    [url |-> Str("http://a"), actionsIsArray |-> TRUE, actions |-> <<>>,
     maxPages |-> Undefined, nextButtonSelector |-> "", saveScreenshots |-> FALSE,
     waitSelector |-> "", waitDelay |-> 0]

\* Every url, actions and maxPages a caller may pass, for a single-page job.
ValidationConfigs ==
    {[BaseConfig EXCEPT !.url = u, !.actionsIsArray = a, !.maxPages = m] :
        u \in UrlInputs, a \in BOOLEAN, m \in MaxPagesInputs}

\* Every action list over the pool, interpreted on a single page.
InterpreterConfigs ==
    {[BaseConfig EXCEPT !.actions = l, !.saveScreenshots = s] :
        l \in ActionLists, s \in BOOLEAN}

\* The action lists interpreted on more than one page.
PagedLists ==
    {<<a>> : a \in ActionPool}
    \cup {<<Extract("items", FALSE), Click(TRUE)>>, <<Click(FALSE), Extract("items", FALSE)>>,
          <<Evaluate("page"), Click(TRUE)>>, <<Extract("url", FALSE)>>}

PagedConfigs ==
    {[BaseConfig EXCEPT !.actions = l, !.maxPages = Num(2), !.nextButtonSelector = ".next"] :
        l \in PagedLists}

\* Paginated jobs without actions, up to the page ceiling.
PaginationConfigs ==
    {[BaseConfig EXCEPT !.maxPages = m, !.nextButtonSelector = ".next"] :
        m \in {Undefined} \cup {Num(n) : n \in 1..MaxPages}}

\* The global wait conditions and the screenshots of the per-page catch.
WaitConfigs ==
    {[BaseConfig EXCEPT !.maxPages = Num(2), !.nextButtonSelector = n,
                        !.saveScreenshots = s, !.waitSelector = w, !.waitDelay = d] :
        n \in {"", ".next"}, s \in BOOLEAN, w \in {"", "#ready"}, d \in {0, 500}}
    \cup {[BaseConfig EXCEPT !.actions = <<Click(FALSE)>>, !.waitSelector = "#ready",
                             !.waitDelay = 500]}

\* Actions with a condition, a post-action delay, a value of another kind, or
\* a name that is also a key of the page's result.
FeaturePool ==
    {Optional(Extract("items", TRUE)), Optional(Extract("", FALSE)), Extract("items", TRUE),
     IfExists(Extract("items", FALSE)), IfNotExists(Click(FALSE)),
     IfTextContains(Extract("items", FALSE), "Sale"),
     DelayAfter(Click(FALSE), 500), DelayAfter(Click(TRUE), 500),
     DelayAfter(IfExists(Extract("items", FALSE)), 500),
     Screenshot("shot"), Evaluate("count"), Extract("url", FALSE)}

\* Each of them alone and followed by a plain action, on a single page.
FeatureLists == {<<a>> : a \in FeaturePool} \cup {<<a, Click(FALSE)>> : a \in FeaturePool}

FeatureConfigs == {[BaseConfig EXCEPT !.actions = l] : l \in FeatureLists}

JobConfigs ==
    ValidationConfigs \cup InterpreterConfigs \cup PagedConfigs \cup PaginationConfigs
    \cup WaitConfigs \cup FeatureConfigs

-----------------------------------------------------------------------------
(* generateSummary *)

\* r.error is set: the test of lines 467, 468 and 473.
HasError(r) == "error" \in DOMAIN r /\ Truthy(r["error"])

\* r.errors?.length || 0, line 469.
ErrorsLength(r) ==
    IF "errors" \notin DOMAIN r THEN 0
    ELSE IF r["errors"].t = "array" THEN Len(r["errors"].v)
    ELSE IF r["errors"].t = "string" THEN Len(r["errors"].v)
    ELSE 0

\* The keys line 477 leaves out of dataTypes.
StructuralKeys == {"page", "url", "timestamp", "pageTitle", "currentUrl", "errors"}

\* Array.isArray(value) ? value.length : 0 for value = pageData[key], line 484.
ItemCount(pageData, key) ==
    IF key \in DOMAIN pageData /\ IsArray(pageData[key]) THEN Len(pageData[key].v) ELSE 0

RECURSIVE ItemsOfPage(_, _)
\* The inner reduce of lines 482-485 over the keys of dataTypes.
ItemsOfPage(pageData, keys) ==
    IF keys = {} THEN 0
    ELSE LET k == CHOOSE x \in keys : TRUE
         IN  ItemCount(pageData, k) + ItemsOfPage(pageData, keys \ {k})

\* generateSummary(results). dataTypes and totalItemsExtracted exist only when
\* some result has no error (hasData).
GenerateSummary(results) ==
    LET n == Len(results)
        good == SelectSeq(results, LAMBDA r : ~HasError(r))
        bad == SelectSeq(results, LAMBDA r : HasError(r))
        errs[i \in 0..n] == IF i = 0 THEN 0 ELSE errs[i - 1] + ErrorsLength(results[i])
        types == IF Len(good) > 0 THEN DOMAIN good[1] \ StructuralKeys ELSE {}
        items[i \in 0..Len(good)] ==
            IF i = 0 THEN 0 ELSE items[i - 1] + ItemsOfPage(good[i], types)
    IN  [totalPages |-> n,
         successfulPages |-> Len(good),
         errorPages |-> Len(bad),
         totalErrors |-> errs[n],
         hasData |-> Len(good) > 0,
         dataTypes |-> types,
         totalItemsExtracted |-> items[Len(good)]]

-----------------------------------------------------------------------------
(* The next-page element and checkAndNavigateToNextPage *)

\* The properties of the next element that line 418-424 reads.
EnabledElement ==
    [disabled |-> FALSE, classes |-> {"next"}, ariaDisabled |-> "", display |-> "",
     visibility |-> ""]

NextElements ==
    {EnabledElement,
     [EnabledElement EXCEPT !.disabled = TRUE],
     [EnabledElement EXCEPT !.classes = {"next", "disabled"}],
     [EnabledElement EXCEPT !.ariaDisabled = "true"],
     [EnabledElement EXCEPT !.ariaDisabled = "false"],
     [EnabledElement EXCEPT !.display = "none"],
     [EnabledElement EXCEPT !.display = "block"],
     [EnabledElement EXCEPT !.visibility = "hidden"]}

\* The driver's answers to one checkAndNavigateToNextPage call. lookup: "" or
\* the message of a failing page.$ / evaluate; found: whether page.$ returned
\* an element; element: that element; click: "" or the message of a failing
\* click; signal: which wait of the race settled first ("failed": it rejected);
\* settle: "" or the message of a failing settle delay (line 450) or of the
\* failing page.url() of line 452.
NextResponses ==
    [lookup : {""}, found : {FALSE}, element : {EnabledElement}, click : {""}, signal : {"delay"},
     settle : {""}]
    \cup [lookup : {"Execution context was destroyed"}, found : {FALSE},
          element : {EnabledElement}, click : {""}, signal : {"delay"}, settle : {""}]
    \cup [lookup : {""}, found : {TRUE}, element : NextElements \ {EnabledElement},
          click : {""}, signal : {"delay"}, settle : {""}]
    \cup [lookup : {""}, found : {TRUE}, element : {EnabledElement},
          click : {"Node is detached from document"}, signal : {"delay"}, settle : {""}]
    \cup [lookup : {""}, found : {TRUE}, element : {EnabledElement, [EnabledElement EXCEPT !.ariaDisabled = "false"]},
          click : {""}, signal : {"navigated", "urlChanged", "delay", "failed"}, settle : {""}]
    \cup [lookup : {""}, found : {TRUE}, element : {EnabledElement},
          click : {""}, signal : {"navigated", "failed"}, settle : {"Target closed"}]

\* The aria-disabled test is left out.
IsDisabled_NoAria(el) ==
    \/ el.disabled
    \/ "disabled" \in el.classes
    \/ el.display = "none"
    \/ el.visibility = "hidden"

\* The predicate evaluated on the element, lines 418-424.
IsDisabled(el) ==
    \/ el.disabled
    \/ "disabled" \in el.classes
    \/ el.ariaDisabled = "true"
    \/ el.display = "none"
    \/ el.visibility = "hidden"

\* The catch of line 455 answers true: a failure of the lookup or of the
\* click counts as a next page.
CheckAndNavigateToNextPage_FailureIsNext(e) ==
    IF e.lookup # ""
    THEN [hasNext |-> TRUE, clicked |-> FALSE, moved |-> FALSE, ops |-> <<"$">>]
    ELSE IF ~e.found
    THEN [hasNext |-> FALSE, clicked |-> FALSE, moved |-> FALSE, ops |-> <<"$">>]
    ELSE IF IsDisabled(e.element)
    THEN [hasNext |-> FALSE, clicked |-> FALSE, moved |-> FALSE, ops |-> <<"$", "evaluate">>]
    ELSE IF e.click # ""
    THEN [hasNext |-> TRUE, clicked |-> TRUE, moved |-> FALSE,
          ops |-> <<"$", "evaluate", "url", "click">>]
    ELSE IF e.settle # ""
    THEN [hasNext |-> FALSE, clicked |-> TRUE, moved |-> TRUE,
          ops |-> <<"$", "evaluate", "url", "click", "race", "settle">>]
    ELSE [hasNext |-> TRUE, clicked |-> TRUE, moved |-> TRUE,
          ops |-> <<"$", "evaluate", "url", "click", "race", "settle", "url">>]

\* The catch of line 445 is missing: a rejected race ends the step the way a
\* rejected click does.
CheckAndNavigateToNextPage_WaitFatal(e) ==
    IF e.lookup # ""
    THEN [hasNext |-> FALSE, clicked |-> FALSE, moved |-> FALSE, ops |-> <<"$">>]
    ELSE IF ~e.found
    THEN [hasNext |-> FALSE, clicked |-> FALSE, moved |-> FALSE, ops |-> <<"$">>]
    ELSE IF IsDisabled(e.element)
    THEN [hasNext |-> FALSE, clicked |-> FALSE, moved |-> FALSE, ops |-> <<"$", "evaluate">>]
    ELSE IF e.click # ""
    THEN [hasNext |-> FALSE, clicked |-> TRUE, moved |-> FALSE,
          ops |-> <<"$", "evaluate", "url", "click">>]
    ELSE IF e.signal = "failed"
    THEN [hasNext |-> FALSE, clicked |-> TRUE, moved |-> TRUE,
          ops |-> <<"$", "evaluate", "url", "click", "race">>]
    ELSE IF e.settle # ""
    THEN [hasNext |-> FALSE, clicked |-> TRUE, moved |-> TRUE,
          ops |-> <<"$", "evaluate", "url", "click", "race", "settle">>]
    ELSE [hasNext |-> TRUE, clicked |-> TRUE, moved |-> TRUE,
          ops |-> <<"$", "evaluate", "url", "click", "race", "settle", "url">>]

\* checkAndNavigateToNextPage(page, selector, delay). hasNext: the value it
\* returns; clicked: whether nextButton.click() was called; moved: whether the
\* site went on to its next view; ops: the driver operations it issued, in
\* order ("race": the three waits of lines 440-444, whose rejection line 445
\* swallows; "settle": the delay of line 450).
CheckAndNavigateToNextPage(e) ==
    IF e.lookup # ""
    THEN [hasNext |-> FALSE, clicked |-> FALSE, moved |-> FALSE, ops |-> <<"$">>]
    ELSE IF ~e.found
    THEN [hasNext |-> FALSE, clicked |-> FALSE, moved |-> FALSE, ops |-> <<"$">>]
    ELSE IF IsDisabled(e.element)
    THEN [hasNext |-> FALSE, clicked |-> FALSE, moved |-> FALSE, ops |-> <<"$", "evaluate">>]
    ELSE IF e.click # ""
    THEN [hasNext |-> FALSE, clicked |-> TRUE, moved |-> FALSE,
          ops |-> <<"$", "evaluate", "url", "click">>]
    ELSE IF e.settle # ""
    THEN [hasNext |-> FALSE, clicked |-> TRUE, moved |-> TRUE,
          ops |-> <<"$", "evaluate", "url", "click", "race", "settle">>]
    ELSE [hasNext |-> TRUE, clicked |-> TRUE, moved |-> TRUE,
          ops |-> <<"$", "evaluate", "url", "click", "race", "settle", "url">>]

-----------------------------------------------------------------------------
(* puppeteerProcessor *)

\* The page ceiling of the loop condition, line 163.
DefaultMaxPages == 10

\* `${x}` for the values a url may be.
TemplateText(x) == IF x.t = "string" THEN x.v ELSE IF x.t = "boolean" /\ x.v THEN "true" ELSE "false"

\* The scheme test and the actions test are left out.
ValidationError_UrlRequiredOnly(c) ==
    IF ~Truthy(c.url) THEN "URL is required for puppeteerProcessor."
    ELSE IF Truthy(c.maxPages) /\ (TypeOf(c.maxPages) # "number" \/ c.maxPages.v < 1)
         THEN "pagination.maxPages must be a positive number."
    ELSE ""

\* The checks of lines 35-44, in order: "" when the configuration passes,
\* else the message of the error thrown.
ValidationError(c) ==
    IF ~Truthy(c.url) THEN "URL is required for puppeteerProcessor."
    ELSE IF TypeOf(c.url) # "string" \/ ~MatchesHttpScheme(c.url.v)
         THEN "Invalid URL format: " \o TemplateText(c.url) \o ". Must start with http:// or https://."
    ELSE IF ~c.actionsIsArray THEN "Actions must be an array."
    ELSE IF Truthy(c.maxPages) /\ (TypeOf(c.maxPages) # "number" \/ c.maxPages.v < 1)
         THEN "pagination.maxPages must be a positive number."
    ELSE ""

\* pagination.nextButtonSelector && currentPage < (pagination.maxPages || Infinity), line 124.
ShouldCheckNext(c, page) ==
    /\ c.nextButtonSelector # ""
    /\ (Truthy(c.maxPages) => page < c.maxPages.v)

\* The selector is not looked at: the loop goes on up to the ceiling.
LoopContinues_NoSelectorTest(c, page) ==
    page <= (IF Truthy(c.maxPages) THEN c.maxPages.v ELSE DefaultMaxPages)

\* The loop goes on for one index past the ceiling.
LoopContinues_OnePastCeiling(c, page) ==
    /\ c.nextButtonSelector # ""
    /\ page <= (IF Truthy(c.maxPages) THEN c.maxPages.v ELSE DefaultMaxPages) + 1

\* pagination.nextButtonSelector && currentPage <= (pagination.maxPages || 10), line 163.
LoopContinues(c, page) ==
    /\ c.nextButtonSelector # ""
    /\ page <= (IF Truthy(c.maxPages) THEN c.maxPages.v ELSE DefaultMaxPages)

\* The message is not looked at: any page error stops a paginated job.
StopsOnError_AnyError(c, message) == c.nextButtonSelector # ""

\* pagination.nextButtonSelector && pageError.message.includes('timeout'), line 157.
StopsOnError(c, message) ==
    /\ c.nextButtonSelector # ""
    /\ Includes(Chars(message), Chars("timeout"))

\* What page.url() and page.title() answer on the view the page shows.
SiteUrl(c, view) == IF view = 0 THEN "about:blank" ELSE c.url.v \o "#" \o ToString(view)
SiteTitle(view) == "Page " \o ToString(view)

\* new Date().toISOString(): time is not modelled.
Timestamp == Str("<now>")

\* The object pushed at lines 116-121: the keys of pageData are spread last.
PageResult(page, url, pageData) ==
    Spread([page |-> Num(page), url |-> Str(url), timestamp |-> Timestamp], pageData)

\* The object pushed at lines 150-154.
ErrorResult(page, message) ==
    [page |-> Num(page), error |-> Str(message), timestamp |-> Timestamp]

-----------------------------------------------------------------------------
(* The queue worker's attempt (startWorker, src/unnamed/part_003) *)

\* The processing attempt of the worker callback, lines 98-166. name:
\* job.name; input: job.data.input; pc: the callback's position; ran: the
\* processor it called ("" for none); result: whether `processorResult` holds
\* what a processor returned; err: the message of the error its catch holds;
\* writes: the values written to the job's status, in order; results and
\* errorLogs: the ProcessingResult and ErrorLog rows created; ended, thrown:
\* how the callback ended and the message of the error it threw.
NewAttempt(name, input) ==
    [name |-> name, input |-> input, pc |-> "route", ran |-> "", result |-> FALSE,
     err |-> "", writes |-> <<>>, results |-> 0, errorLogs |-> 0,
     ended |-> "", thrown |-> ""]

\* No attempt is under way: the invocation is looked at on its own.
NoAttempt == [NewAttempt("", Undefined) EXCEPT !.pc = "none"]

-----------------------------------------------------------------------------
(* The steps of one invocation *)

\* The answers of a driver that was asked nothing.
NoResponse ==
    [exists |-> TRUE, textHas |-> TRUE, wait |-> "", op |-> "", value |-> Undefined, shot |-> ""]

NoHistory ==
    [launches |-> 0,      \* calls of puppeteer.launch
     closes |-> 0,        \* calls of browser.close
     gotos |-> 0,         \* calls of page.goto
     navOps |-> <<>>,     \* the driver operations of the navigation to the target URL
     clicks |-> 0,        \* calls of nextButton.click
     moves |-> 0,         \* next-page steps that returned true
     shots |-> 0,         \* diagnostic screenshots asked of the driver
     shotsFailed |-> 0,   \* those of them that the driver rejected
     setUp |-> FALSE,     \* the browser and the page were set up (line 90 was passed)
     iterations |-> 0,    \* completed iterations of the do-while loop
     catches |-> 0,       \* errors handled by the per-page catch
     ended |-> "",        \* how this iteration produced its result: "", "pushed", "caught"
     notEnabled |-> 0,    \* next-page steps that met anything but an enabled element
     processed |-> <<>>,  \* per processPage call: [index, view], the page index and the view shown
     dispatched |-> <<>>, \* positions of the actions passed to executeAction on this page
     passedOver |-> <<>>, \* positions of the entries the guard of line 212 passed over
     failed |-> <<>>,     \* positions of the actions whose executeAction threw on this page
     delayed |-> <<>>,    \* positions of the actions followed by their post-action delay on this page
     response |-> NoResponse, \* the driver's answers to the action interpreted by the last step
     failures |-> 0,      \* actions whose executeAction threw, over the whole job
     items |-> 0,         \* elements of the sequences the extract actions returned, over the whole job
     nextSeen |-> "none", \* what the last next-page step met
     nextOps |-> <<>>,    \* the driver operations of the last next-page step
     signal |-> "",       \* how the race of its waits ended, when it got that far
     caught |-> "",       \* message of the last error the per-page catch handled
     stop |-> "none"]     \* why the loop was left

Init ==
    /\ cfg \in JobConfigs
    /\ pc = "start"
    /\ browser = "null"
    /\ currentPage = 1
    /\ allResults = <<>>
    /\ scrapedData = EmptyObject
    /\ ai = 0
    /\ pageError = ""
    /\ fatalError = ""
    /\ outcome = "none"
    /\ thrown = ""
    /\ jobResult = [success |-> FALSE, totalPages |-> 0, results |-> <<>>,
                    summary |-> GenerateSummary(<<>>)]
    /\ site = 0
    /\ hist = NoHistory
    /\ runs = <<>>
    /\ frames = <<>>
    /\ handles = <<>>
    /\ attempt = NoAttempt

\* Lines 34-44: a configuration that fails a check makes the call throw at once.
Validate ==
    /\ pc = "start"
    /\ IF ValidationError(cfg) # ""
       THEN /\ pc' = "done"
            /\ outcome' = "threw"
            /\ thrown' = ValidationError(cfg)
       ELSE /\ pc' = "launch"
            /\ UNCHANGED <<outcome, thrown>>
    /\ UNCHANGED <<attempt, runs, frames, handles, cfg, browser, currentPage, allResults, scrapedData, ai, pageError,
                   fatalError, jobResult, site, hist>>

\* Lines 68-71: puppeteer.launch resolves or rejects.
Launch ==
    /\ pc = "launch"
    /\ hist' = [hist EXCEPT !.launches = @ + 1]
    /\ \E ok \in BOOLEAN :
          IF ok
          THEN /\ browser' = "open"
               /\ pc' = "setup"
               /\ UNCHANGED fatalError
          ELSE /\ fatalError' = "Failed to launch the browser process"
               /\ pc' = "fatal"
               /\ UNCHANGED browser
    /\ UNCHANGED <<attempt, runs, frames, handles, cfg, currentPage, allResults, scrapedData, ai, pageError, outcome,
                   thrown, jobResult, site>>

\* Lines 73-90: newPage, viewport, user agent, timeouts, listeners, mkdir
\* (whose failure is swallowed). Any other failure goes to the outer catch.
Setup ==
    /\ pc = "setup"
    /\ \E ok \in BOOLEAN :
          IF ok
          THEN /\ pc' = "loop"
               /\ hist' = [hist EXCEPT !.setUp = TRUE]
               /\ UNCHANGED fatalError
          ELSE /\ fatalError' = "Target closed"
               /\ pc' = "fatal"
               /\ UNCHANGED hist
    /\ UNCHANGED <<attempt, runs, frames, handles, cfg, browser, currentPage, allResults, scrapedData, ai, pageError,
                   outcome, thrown, jobResult, site>>

\* The driver's answers to the navigation of lines 98-112. goto, wait: "" or
\* the message of the rejection.
NavResponses(c) ==
    [goto : {"", "Navigation timeout of 30000 ms exceeded", "net::ERR_CONNECTION_REFUSED"},
     wait : IF c.waitSelector # "" THEN {""} \cup WaitFailures ELSE {""}]

\* The global delay is applied before the navigation and the global wait.
NavigationOps_DelayFirst(c, r) ==
    (IF c.waitDelay # 0 THEN <<"waitForTimeout">> ELSE <<>>)
    \o <<"goto">>
    \o (IF r.goto = "" /\ c.waitSelector # "" THEN <<"waitForSelector">> ELSE <<>>)

\* The driver operations of lines 100-111, in order: the wait for the global
\* selector follows a navigation that resolved, the global delay a wait that
\* resolved.
NavigationOps(c, r) ==
    <<"goto">>
    \o (IF r.goto = "" /\ c.waitSelector # "" THEN <<"waitForSelector">> ELSE <<>>)
    \o (IF r.goto = "" /\ r.wait = "" /\ c.waitDelay # 0 THEN <<"waitForTimeout">> ELSE <<>>)

\* Lines 94-112: the head of an iteration. Only page 1 navigates.
BeginPage ==
    /\ pc = "loop"
    /\ LET fresh == [hist EXCEPT !.ended = "", !.dispatched = <<>>, !.passedOver = <<>>,
                                 !.failed = <<>>, !.delayed = <<>>, !.nextSeen = "none",
                                 !.nextOps = <<>>, !.signal = ""]
       IN  IF currentPage = 1
           THEN \E r \in NavResponses(cfg) :
                   /\ hist' = [fresh EXCEPT !.gotos = @ + 1, !.navOps = NavigationOps(cfg, r)]
                   /\ IF r.goto # ""
                      THEN /\ pageError' = r.goto
                           /\ pc' = "pageCatch"
                           /\ UNCHANGED site
                      ELSE /\ site' = 1
                           /\ IF r.wait # ""
                              THEN pageError' = r.wait /\ pc' = "pageCatch"
                              ELSE pc' = "process" /\ UNCHANGED pageError
           ELSE /\ pc' = "process"
                /\ hist' = fresh
                /\ UNCHANGED <<pageError, site>>
    /\ UNCHANGED <<attempt, runs, frames, handles, cfg, browser, currentPage, allResults, scrapedData, ai, fatalError,
                   outcome, thrown, jobResult>>

\* Lines 205-209: processPage starts; page.title() may reject.
ProcessPageStart ==
    /\ pc = "process"
    /\ hist' = [hist EXCEPT !.processed = Append(@, [index |-> currentPage, view |-> site])]
    /\ \E ok \in BOOLEAN :
          IF ok
          THEN /\ scrapedData' = [pageTitle |-> Str(SiteTitle(site)),
                                  currentUrl |-> Str(SiteUrl(cfg, site))]
               /\ ai' = 1
               /\ pc' = "actions"
               /\ UNCHANGED pageError
          ELSE /\ scrapedData' = EmptyObject
               /\ ai' = 0
               /\ pageError' = "Execution context was destroyed"
               /\ pc' = "pageCatch"
    /\ UNCHANGED <<attempt, runs, frames, handles, cfg, browser, currentPage, allResults, fatalError, outcome, thrown,
                   jobResult, site>>

\* Lines 211-251: one pass of the for-loop, executeAction included.
ProcessAction ==
    /\ pc = "actions"
    /\ ai <= Len(cfg.actions)
    /\ \E r \in EnvResponses(cfg.actions[ai], cfg.saveScreenshots) :
          LET action == cfg.actions[ai]
              o == InterpretAction(scrapedData, ai, action, r, cfg.saveScreenshots)
              res == ExecuteAction(action, r)
              threw == o.dispatched /\ res.kind = "throw"
              extracted == IF o.dispatched /\ ~threw /\ action.type.v = "extract" /\ IsArray(res.value)
                           THEN Len(res.value.v) ELSE 0
          IN  /\ scrapedData' = o.data
              /\ hist' = [hist EXCEPT
                            !.dispatched = IF o.dispatched THEN Append(@, ai) ELSE @,
                            !.passedOver = IF o.dispatched THEN @ ELSE Append(@, ai),
                            !.failed = IF threw THEN Append(@, ai) ELSE @,
                            !.delayed = IF o.delay THEN Append(@, ai) ELSE @,
                            !.response = r,
                            !.failures = IF threw THEN @ + 1 ELSE @,
                            !.items = @ + extracted,
                            !.shots = @ + o.shots,
                            !.shotsFailed = IF o.shots > 0 /\ r.shot # "" THEN @ + 1 ELSE @]
              /\ IF o.error # ""
                 THEN pageError' = o.error /\ pc' = "pageCatch" /\ UNCHANGED ai
                 ELSE ai' = ai + 1 /\ UNCHANGED <<pageError, pc>>
    /\ UNCHANGED <<attempt, runs, frames, handles, cfg, browser, currentPage, allResults, fatalError, outcome, thrown,
                   jobResult, site>>

\* Lines 253 and 116-121: processPage returns and the page's result is pushed.
PushResult ==
    /\ pc = "actions"
    /\ ai > Len(cfg.actions)
    /\ allResults' = Append(allResults, PageResult(currentPage, SiteUrl(cfg, site), scrapedData))
    /\ pc' = "checkNext"
    /\ hist' = [hist EXCEPT !.ended = "pushed", !.response = NoResponse]
    /\ UNCHANGED <<attempt, runs, frames, handles, cfg, browser, currentPage, scrapedData, ai, pageError, fatalError,
                   outcome, thrown, jobResult, site>>

\* What the next-page step met, as the driver presented it.
NextSeen(e) ==
    IF e.lookup # "" THEN "failed"
    ELSE IF ~e.found THEN "absent"
    ELSE IF \/ e.element.disabled
            \/ "disabled" \in e.element.classes
            \/ e.element.ariaDisabled = "true"
            \/ e.element.display = "none"
            \/ e.element.visibility = "hidden" THEN "disabled"
    ELSE IF e.click # "" \/ e.settle # "" THEN "failed"
    ELSE "enabled"

\* Lines 123-138 and the loop condition of line 163.
CheckNextPage ==
    /\ pc = "checkNext"
    /\ IF ShouldCheckNext(cfg, currentPage)
       THEN \E e \in NextResponses :
               LET n == CheckAndNavigateToNextPage(e)
               IN  /\ site' = IF n.moved THEN site + 1 ELSE site
                   /\ IF n.hasNext
                      THEN /\ currentPage' = currentPage + 1
                           /\ pc' = IF LoopContinues(cfg, currentPage + 1) THEN "loop" ELSE "return"
                           /\ hist' = [hist EXCEPT !.clicks = @ + 1, !.moves = @ + 1,
                                         !.iterations = @ + 1,
                                         !.nextSeen = NextSeen(e),
                                         !.nextOps = n.ops, !.signal = e.signal,
                                         !.stop = IF LoopContinues(cfg, currentPage + 1)
                                                  THEN "none" ELSE "condition"]
                      ELSE /\ pc' = "return"
                           /\ hist' = [hist EXCEPT !.clicks = IF n.clicked THEN @ + 1 ELSE @,
                                         !.iterations = @ + 1, !.nextSeen = NextSeen(e),
                                         !.nextOps = n.ops,
                                         !.signal = IF n.moved THEN e.signal ELSE "",
                                         !.notEnabled = @ + 1,
                                         !.stop = "noNextPage"]
                           /\ UNCHANGED currentPage
       ELSE /\ pc' = "return"
            /\ hist' = [hist EXCEPT !.iterations = @ + 1, !.stop = "noCheck"]
            /\ UNCHANGED <<currentPage, site>>
    /\ UNCHANGED <<attempt, runs, frames, handles, cfg, browser, allResults, scrapedData, ai, pageError, fatalError,
                   outcome, thrown, jobResult>>

\* The per-page catch records the error and throws it again.
PageCatch_Rethrows ==
    /\ pc = "pageCatch"
    /\ allResults' = Append(allResults, ErrorResult(currentPage, pageError))
    /\ fatalError' = pageError
    /\ pageError' = ""
    /\ pc' = "fatal"
    /\ hist' = [hist EXCEPT !.caught = pageError, !.catches = @ + 1, !.ended = "caught",
                             !.response = NoResponse]
    /\ UNCHANGED <<attempt, runs, frames, handles, cfg, browser, currentPage, scrapedData, ai, outcome, thrown, jobResult, site>>

\* Lines 140-161 and the loop condition of line 163: the per-page catch. The
\* rejection of the screenshot of line 145 is swallowed.
PageCatch ==
    /\ pc = "pageCatch"
    /\ allResults' = Append(allResults, ErrorResult(currentPage, pageError))
    /\ pageError' = ""
    /\ \E shot \in IF cfg.saveScreenshots THEN {"", "Unable to capture screenshot"} ELSE {""} :
          LET seen == [hist EXCEPT !.iterations = @ + 1, !.caught = pageError,
                                   !.catches = @ + 1, !.ended = "caught",
                                   !.response = NoResponse,
                                   !.shots = IF cfg.saveScreenshots THEN @ + 1 ELSE @,
                                   !.shotsFailed = IF shot # "" THEN @ + 1 ELSE @]
          IN  IF StopsOnError(cfg, pageError)
              THEN /\ pc' = "return"
                   /\ hist' = [seen EXCEPT !.stop = "timeout"]
                   /\ UNCHANGED currentPage
              ELSE /\ currentPage' = currentPage + 1
                   /\ pc' = IF LoopContinues(cfg, currentPage + 1) THEN "loop" ELSE "return"
                   /\ hist' = [seen EXCEPT !.stop = IF LoopContinues(cfg, currentPage + 1)
                                                    THEN "none" ELSE "condition"]
    /\ UNCHANGED <<attempt, runs, frames, handles, cfg, browser, scrapedData, ai, fatalError, outcome, thrown, jobResult, site>>

\* Lines 165-174: the result object of the return statement.
Return ==
    /\ pc = "return"
    /\ jobResult' = [success |-> TRUE, totalPages |-> Len(allResults),
                     results |-> allResults, summary |-> GenerateSummary(allResults)]
    /\ pc' = "finally"
    /\ UNCHANGED <<attempt, runs, frames, handles, cfg, browser, currentPage, allResults, scrapedData, ai, pageError,
                   fatalError, outcome, thrown, site, hist>>

\* The finally block is missing: the browser is never taken to be set.
BrowserIsSet_Never(b) == FALSE

\* if (browser), lines 179 and 194.
BrowserIsSet(b) == b # "null"

\* Lines 176-192: the outer catch. Its screenshot, taken when screenshots are
\* enabled and a browser was launched, is inside its own try.
Fatal ==
    /\ pc = "fatal"
    /\ pc' = "finally"
    /\ \E shot \in IF cfg.saveScreenshots /\ BrowserIsSet(browser)
                   THEN {"", "Unable to capture screenshot"} ELSE {""} :
          hist' = [hist EXCEPT !.shots = IF cfg.saveScreenshots /\ BrowserIsSet(browser) THEN @ + 1 ELSE @,
                               !.shotsFailed = IF shot # "" THEN @ + 1 ELSE @]
    /\ UNCHANGED <<attempt, runs, frames, handles, cfg, browser, currentPage, allResults, scrapedData, ai, pageError,
                   fatalError, outcome, thrown, jobResult, site>>

\* Lines 193-198: the finally block, then the call returns or throws. A
\* rejection of browser.close() replaces whatever the call was about to do.
Finally ==
    /\ pc = "finally"
    /\ pc' = "done"
    /\ IF BrowserIsSet(browser)
       THEN \E ok \in BOOLEAN :
               /\ browser' = "closed"
               /\ hist' = [hist EXCEPT !.closes = @ + 1]
               /\ IF ~ok THEN outcome' = "threw" /\ thrown' = "Browser close failed"
                  ELSE IF fatalError # "" THEN outcome' = "threw" /\ thrown' = fatalError
                  ELSE outcome' = "returned" /\ UNCHANGED thrown
       ELSE /\ outcome' = "threw"
            /\ thrown' = fatalError
            /\ UNCHANGED <<browser, hist>>
    /\ UNCHANGED <<attempt, runs, frames, handles, cfg, currentPage, allResults, scrapedData, ai, pageError, fatalError,
                   jobResult, site>>

Next ==
    \/ Validate
    \/ Launch
    \/ Setup
    \/ BeginPage
    \/ ProcessPageStart
    \/ ProcessAction
    \/ PushResult
    \/ CheckNextPage
    \/ PageCatch
    \/ Return
    \/ Fatal
    \/ Finally

Spec == Init /\ [][Next]_vars

\* Every driver operation the invocation awaits eventually resolves or
\* rejects, so the step that awaits it is eventually taken.
Terminating == Init /\ [][Next]_vars /\ WF_vars(Next)

-----------------------------------------------------------------------------
(* Session: launch, validation, release *)

\* C1: at most one browser is launched per invocation; browser.close() is
\* never called more than once and never without a launched browser; and when
\* the call has ended after a successful launch, on whichever path, it was
\* called exactly once.
C1_BrowserClosedExactlyOnce ==
    /\ hist.launches <= 1
    /\ hist.closes <= 1
    /\ browser = "null" => hist.closes = 0
    /\ (pc = "done" /\ browser # "null") => hist.closes = 1

\* C1: the call ended through the outer catch (page setup failed after the
\* launch) and the browser was closed.
C1_Witness ==
    /\ pc = "done"
    /\ outcome = "threw"
    /\ thrown = "Target closed"
    /\ hist.launches = 1
    /\ hist.closes = 1

\* The configurations the claim calls valid, spelled out on the inputs: the url
\* is a string starting with http:// or https://, actions is an array, and
\* maxPages passes its check.
C2_UrlAndActionsValid(c) ==
    /\ c.url.t = "string"
    /\ c.url.v \in {"http://a", "https://a"}
    /\ c.actionsIsArray

C2_MaxPagesPasses(c) ==
    \/ c.maxPages.t \in {"undefined", "nan"}
    \/ c.maxPages.t = "number" /\ c.maxPages.v >= 0

\* C2: with an invalid url or actions the call throws and puppeteer.launch is
\* never called; the launch step is reached only by configurations that
\* passed every check.
C2_NoLaunchBeforeValidation ==
    /\ ~C2_UrlAndActionsValid(cfg) =>
          /\ hist.launches = 0
          /\ browser = "null"
          /\ pc \in {"start", "done"}
          /\ pc = "done" => (outcome = "threw" /\ thrown # "")
    /\ (pc = "launch" \/ hist.launches > 0) =>
          (C2_UrlAndActionsValid(cfg) /\ C2_MaxPagesPasses(cfg))

\* C2: a url with another scheme made the call throw without a launch.
C2_Witness ==
    /\ pc = "done"
    /\ cfg.url = Str("ftp://a")
    /\ outcome = "threw"
    /\ hist.launches = 0

-----------------------------------------------------------------------------
(* Action interpreter *)

\* The result of the iteration that just ended.
LastResult == allResults[Len(allResults)]

\* The positions in a log.
Positions(log) == {log[i] : i \in 1..Len(log)}

\* C3: once a page has produced its result, for every action that failed on
\* it: if the action is critical, no later entry of the list was visited and
\* the page's result carries a page-level error; if it is not critical and is
\* the only failure of the page, every later entry was visited, in declared
\* order, and the page's result carries no page-level error.
C3_CriticalHaltsNonCriticalContinues ==
    hist.ended # "" =>
        LET n == Len(cfg.actions)
            visited == Positions(hist.dispatched) \cup Positions(hist.passedOver)
        IN  \A i \in Positions(hist.failed) :
                IF cfg.actions[i].critical
                THEN /\ \A j \in (i + 1)..n : j \notin visited
                     /\ HasError(LastResult)
                ELSE hist.failed = <<i>> =>
                     /\ \A j \in (i + 1)..n : j \in visited
                     /\ \A a, b \in 1..Len(hist.dispatched) :
                           a < b => hist.dispatched[a] < hist.dispatched[b]
                     /\ ~HasError(LastResult)

\* The entries line 212 passes over: no action at all, or no string for a kind.
C4_NotAnAction(action) == action.isNull \/ action.type.t # "string"

\* The entries the claim speaks of: those, and every kind outside the eight.
C4_Unrecognized(action) ==
    \/ C4_NotAnAction(action)
    \/ action.type.v \notin {"click", "type", "extract", "waitForSelector", "delay",
                              "screenshot", "scroll", "evaluate"}

\* What "skipped" means for the step that visits the entry at position ai: no
\* value and no error entry are stored, no failure is logged, and the loop goes
\* on to the next entry.
C4_Skipped ==
    /\ scrapedData' = scrapedData
    /\ hist'.failed = hist.failed
    /\ ai' = ai + 1
    /\ pc' = "actions"

\* C4, as stated: every entry whose kind is not one of the eight recognized
\* kinds is skipped.
C4_UnrecognizedKindSkipped ==
    [][(pc = "actions" /\ ai <= Len(cfg.actions) /\ C4_Unrecognized(cfg.actions[ai]))
          => C4_Skipped]_vars

\* C4, amended: every entry that is no action or whose kind is not a string is
\* skipped, and executeAction is not called for it.
C4_InvalidEntrySkipped ==
    [][(pc = "actions" /\ ai <= Len(cfg.actions) /\ C4_NotAnAction(cfg.actions[ai]))
          => (C4_Skipped /\ hist'.dispatched = hist.dispatched)]_vars

\* C4: an entry was passed over, an action after it was executed, and the page
\* produced a result without an error list.
C4_Witness ==
    /\ pc = "checkNext"
    /\ hist.passedOver = <<1>>
    /\ hist.dispatched = <<2>>
    /\ "errors" \notin DOMAIN LastResult

\* C5: once a page has produced its result, everything processPage had stored
\* for that page (the values of the actions that succeeded and the error list)
\* is in that result.
C5_PartialResultsKept ==
    hist.ended # "" =>
        \A k \in DOMAIN scrapedData \ {"pageTitle", "currentUrl"} :
            /\ k \in DOMAIN LastResult
            /\ LastResult[k] = scrapedData[k]

-----------------------------------------------------------------------------
(* Pagination controller *)

\* C6: a call that got past the set-up of browser and page ends by returning
\* a result with success = true, totalPages = results.length >= 1, whatever
\* failed inside the per-page scope; a call throws only for an invalid
\* configuration, a failed launch or set-up, or a failed browser.close().
C6_PageFailuresNeverFailTheCall ==
    /\ (pc = "done" /\ hist.setUp) =>
          \/ /\ outcome = "returned"
             /\ jobResult.success
             /\ jobResult.results = allResults
             /\ jobResult.totalPages = Len(jobResult.results)
             /\ Len(jobResult.results) >= 1
          \/ /\ outcome = "threw"
             /\ thrown = "Browser close failed"
    /\ (pc = "done" /\ outcome = "threw") =>
          \/ hist.launches = 0 /\ ~(C2_UrlAndActionsValid(cfg) /\ C2_MaxPagesPasses(cfg))
          \/ hist.launches = 1 /\ ~hist.setUp
          \/ thrown = "Browser close failed"

\* C6: the call returned although a critical action had aborted a page.
C6_Witness ==
    /\ pc = "done"
    /\ outcome = "returned"
    /\ jobResult.success
    /\ hist.catches >= 1
    /\ hist.failed # <<>>

\* C7: a paginated job with maxPages = M whose every next-page step met an
\* enabled element and whose pages raised no page-level error ends with exactly
\* M results carrying the page indices 1..M, after M - 1 clicks.
C7_ExactlyMaxPagesResults ==
    (/\ pc \in {"return", "finally", "done"}
     /\ hist.setUp
     /\ cfg.nextButtonSelector # ""
     /\ cfg.maxPages.t = "number" /\ cfg.maxPages.v >= 1
     /\ hist.notEnabled = 0
     /\ hist.catches = 0) =>
        /\ Len(allResults) = cfg.maxPages.v
        /\ \A i \in 1..Len(allResults) : allResults[i]["page"] = Num(i)
        /\ hist.clicks = cfg.maxPages.v - 1

\* C8: when the next-page step meets no element or a disabled one, that step
\* and every later one leave the click count, the results and the error count
\* as they are and the loop is left; the call then returns (unless
\* browser.close() itself fails).
C8_NoNextStopsQuietly ==
    /\ [][hist'.nextSeen \in {"absent", "disabled"} =>
             /\ hist'.clicks = hist.clicks
             /\ allResults' = allResults
             /\ scrapedData' = scrapedData
             /\ hist'.catches = hist.catches
             /\ pc' \in {"return", "finally", "done"}]_vars
    /\ [](pc = "done" /\ hist.nextSeen \in {"absent", "disabled"} =>
             (outcome = "returned" \/ thrown = "Browser close failed"))

\* C8: a job stopped at a disabled next element on its first page and returned.
C8_Witness ==
    /\ pc = "done"
    /\ hist.nextSeen = "disabled"
    /\ outcome = "returned"
    /\ hist.clicks = 0
    /\ Len(allResults) = 1

\* The messages of the driver's timeouts.
C9_TimeoutMessages ==
    {"Navigation timeout of 30000 ms exceeded",
     "waiting for selector failed: timeout 5000ms exceeded"}

\* The page ceiling: the configured maxPages, or 10.
C9_Ceiling(c) == IF c.maxPages.t = "number" /\ c.maxPages.v >= 1 THEN c.maxPages.v ELSE 10

\* C9: in a paginated job the per-page catch appends the error result; on a
\* timeout message it leaves the loop with the page index unchanged, and then
\* no page is processed and no result appended any more; on any other message
\* it advances the page index by one and the loop goes on exactly when the new
\* index does not exceed the ceiling.
C9_TimeoutStopsOtherErrorsAdvance ==
    /\ [][(pc = "pageCatch" /\ cfg.nextButtonSelector # "") =>
             /\ allResults' = Append(allResults, ErrorResult(currentPage, pageError))
             /\ IF pageError \in C9_TimeoutMessages
                THEN pc' = "return" /\ currentPage' = currentPage
                ELSE /\ currentPage' = currentPage + 1
                     /\ pc' = IF currentPage + 1 <= C9_Ceiling(cfg) THEN "loop" ELSE "return"]_vars
    /\ [][hist.stop = "timeout" =>
             /\ allResults' = allResults
             /\ hist'.processed = hist.processed
             /\ pc' \in {"finally", "done"}]_vars

\* C9: page 1 failed with another error, page 2 was processed and failed with a
\* timeout, which ended the job with two error results.
C9_Witness ==
    /\ pc = "done"
    /\ hist.stop = "timeout"
    /\ Len(allResults) = 2
    /\ allResults[1]["error"] = Str("Execution context was destroyed")
    /\ allResults[2]["error"] = Str("waiting for selector failed: timeout 5000ms exceeded")

\* C10: outside an iteration the results hold one entry per completed
\* iteration, and the i-th entry carries the page index i.
C10_OneResultPerIterationIndexedInOrder ==
    /\ pc \in {"loop", "return", "finally", "done"} => Len(allResults) = hist.iterations
    /\ \A i \in 1..Len(allResults) : allResults[i]["page"] = Num(i)

\* A result that carries the title and the resolved URL of the first view and
\* neither an error list nor a page-level error.
C11_TitledAndClean(r) ==
    /\ "pageTitle" \in DOMAIN r /\ r["pageTitle"] = Str(SiteTitle(1))
    /\ "currentUrl" \in DOMAIN r /\ r["currentUrl"] = Str(SiteUrl(cfg, 1))
    /\ "url" \in DOMAIN r /\ r["url"] = Str(SiteUrl(cfg, 1))
    /\ "errors" \notin DOMAIN r
    /\ ~HasError(r)

\* The loop of a job without a next-element selector has been left.
C11_SinglePageJobLeftLoop ==
    /\ pc \in {"return", "finally", "done"}
    /\ hist.setUp
    /\ cfg.nextButtonSelector = ""

C12_FatalErrorReraised ==
    (pc = "done" /\ fatalError # "") =>
        /\ outcome = "threw"
        /\ thrown = fatalError
        /\ ~jobResult.success
        /\ browser # "null" => (browser = "closed" /\ hist.closes = 1)
        /\ (cfg.saveScreenshots /\ browser # "null") => hist.shots >= 1

\* The step that interprets the entry at position ai.
C13_InterpretsEntry == pc = "actions" /\ ai <= Len(cfg.actions)

\* An extract action with a selector and no element condition.
C13_IsPlainExtract(a) ==
    /\ ~a.isNull
    /\ a.type.t = "string" /\ a.type.v = "extract"
    /\ a.selector # ""
    /\ ~a.ifExists /\ ~a.ifNotExists /\ a.ifTextContains = ""

\* The error list of a field mapping.
C13_Errors(data) == IF "errors" \in DOMAIN data THEN data["errors"].v ELSE <<>>

\* C13: when an extract action meets a selector that never appears (its wait
\* is rejected): with the optional flag no failure is logged, the error list
\* stays as it is, the loop goes on to the next entry even if the action is
\* critical, and the empty sequence is stored under the action's name if it
\* has one; without the flag the action fails with the wait's error, which is
\* appended to the error list and, for a critical action, aborts the page.
C13_OptionalExtractOfAbsentSelector ==
    [][(/\ C13_InterpretsEntry
        /\ C13_IsPlainExtract(cfg.actions[ai])
        /\ hist'.response.wait # "") =>
          LET a == cfg.actions[ai]
              message == hist'.response.wait
          IN  IF a.optional
              THEN /\ hist'.failed = hist.failed
                   /\ C13_Errors(scrapedData') = C13_Errors(scrapedData)
                   /\ pc' = "actions" /\ ai' = ai + 1
                   /\ IF a.name # ""
                      THEN scrapedData' = Put(scrapedData, a.name, Arr(<<>>))
                      ELSE scrapedData' = scrapedData
              ELSE /\ hist'.failed = Append(hist.failed, ai)
                   /\ Len(C13_Errors(scrapedData')) = Len(C13_Errors(scrapedData)) + 1
                   /\ C13_Errors(scrapedData')[Len(C13_Errors(scrapedData'))].v.message = message
                   /\ \A k \in DOMAIN scrapedData \ {"errors"} :
                         k \in DOMAIN scrapedData' /\ scrapedData'[k] = scrapedData[k]
                   /\ IF a.critical
                      THEN pc' = "pageCatch" /\ pageError' = message
                      ELSE pc' = "actions" /\ ai' = ai + 1]_vars

\* C13: a critical optional extract has just met a selector that never
\* appeared: the empty sequence is stored under its name, nothing failed, and
\* the next entry is about to be interpreted.
C13_Witness ==
    /\ pc = "actions"
    /\ ai = 2
    /\ cfg.actions = <<Optional(Extract("items", TRUE)), Click(FALSE)>>
    /\ hist.response.wait # ""
    /\ hist.dispatched = <<1>>
    /\ hist.failed = <<>>
    /\ scrapedData = [pageTitle |-> Str(SiteTitle(1)), currentUrl |-> Str(SiteUrl(cfg, 1)),
                      items |-> Arr(<<>>)]

-----------------------------------------------------------------------------
(* Summary *)

\* Every entry of the list is a named extract action without a condition.
C14_AllNamedExtracts(c) ==
    /\ c.actions # <<>>
    /\ \A k \in 1..Len(c.actions) :
          /\ C13_IsPlainExtract(c.actions[k])
          /\ c.actions[k].name # ""

\* The names of the actions of the list.
C14_Names(c) == {c.actions[k].name : k \in 1..Len(c.actions)}

\* The lengths of the sequences held under these names, summed over the results.
C14_HeldItems(results, names) ==
    LET total[i \in 0..Len(results)] ==
            IF i = 0 THEN 0 ELSE total[i - 1] + ItemsOfPage(results[i], names)
    IN  total[Len(results)]

\* C14: when a job of named extract actions returned and nothing failed on any
\* page, the results have one entry per visited page, each entry holds a
\* sequence under every action's name, and summary.totalItemsExtracted is the
\* sum of the lengths of those sequences over all pages.
C14_ItemsSummedOverPages ==
    (/\ pc = "done" /\ outcome = "returned"
     /\ C14_AllNamedExtracts(cfg)
     /\ hist.catches = 0 /\ hist.failures = 0) =>
        /\ Len(jobResult.results) = Len(hist.processed)
        /\ \A i \in 1..Len(jobResult.results) : \A name \in C14_Names(cfg) :
              /\ name \in DOMAIN jobResult.results[i]
              /\ IsArray(jobResult.results[i][name])
        /\ jobResult.summary.totalItemsExtracted
              = C14_HeldItems(jobResult.results, C14_Names(cfg))
        /\ Len(cfg.actions) = 1 =>
              C14_HeldItems(jobResult.results, C14_Names(cfg)) = hist.items

-----------------------------------------------------------------------------
(* Validation of the page ceiling *)

\* C17: a configuration whose maxPages is present and is not a positive number
\* never gets past validation: no browser is launched for it and the call ends
\* by throwing.
C17_NonPositiveMaxPagesRejected ==
    (/\ cfg.maxPages.t # "undefined"
     /\ ~(cfg.maxPages.t = "number" /\ cfg.maxPages.v >= 1)) =>
        /\ hist.launches = 0
        /\ browser = "null"
        /\ pc \in {"start", "done"}
        /\ pc = "done" => (outcome = "threw" /\ thrown # "")

-----------------------------------------------------------------------------
(* Conditions, stored values, post-action delay *)

\* An entry that line 212 lets through.
C18_IsAction(a) == ~a.isNull /\ a.type.t = "string"

\* Some condition of the action is unmet on what the driver presents: the
\* element is missing for must-exist, present for must-not-exist, missing or
\* without the substring for text-must-contain.
C18_Unmet(a, r) ==
    /\ a.selector # ""
    /\ \/ a.ifExists /\ ~r.exists
       \/ a.ifNotExists /\ r.exists
       \/ a.ifTextContains # "" /\ (~r.exists \/ ~r.textHas)

\* C18: the step that interprets an action with an unmet condition stores no
\* value, records no error and logs no failure (the kind's own behaviour did
\* not run), and the loop goes on to the next entry.
C18_UnmetConditionSkips ==
    [][(/\ C13_InterpretsEntry
        /\ C18_IsAction(cfg.actions[ai])
        /\ C18_Unmet(cfg.actions[ai], hist'.response)) =>
          /\ scrapedData' = scrapedData
          /\ hist'.failed = hist.failed
          /\ pc' = "actions" /\ ai' = ai + 1]_vars

\* C19: the step that interprets an action whose executeAction call returns a
\* value (anything but null) stores that value under the action's name when
\* the action has one, whatever the value is; an action without a name, or
\* whose call returns null (skipped, or a kind without a value), stores nothing.
C19_ValueStoredUnderName ==
    [][(C13_InterpretsEntry /\ C18_IsAction(cfg.actions[ai])) =>
          LET a == cfg.actions[ai]
              res == ExecuteAction(a, hist'.response)
          IN  res.kind = "return" =>
                 IF res.value.t # "null" /\ a.name # ""
                 THEN scrapedData' = Put(scrapedData, a.name, res.value)
                 ELSE scrapedData' = scrapedData]_vars

\* C20: the step that interprets an action with a post-action delay and does
\* not abort the page (the loop goes on to the next entry) applies the delay,
\* whether the action succeeded, was skipped by its condition or failed.
C20_DelayAfterEveryAction ==
    [][(/\ C13_InterpretsEntry
        /\ C18_IsAction(cfg.actions[ai])
        /\ cfg.actions[ai].delayAfter # 0
        /\ pc' = "actions") =>
          hist'.delayed = Append(hist.delayed, ai)]_vars

-----------------------------------------------------------------------------
(* Two invocations of puppeteerProcessor side by side, as the queue worker    *)
(* runs them: each step is one invocation's progress from one suspension      *)
(* point to a later one, and the steps of the two interleave freely.          *)

Invocations == {1, 2}

\* `browser` is one variable shared by all invocations.
BrowserFrame_Shared(i) == 1

\* `let browser` of line 46 is local to the call: one per invocation.
BrowserFrame(i) == i

\* `allResults` and `currentPage` are shared by all invocations.
LoopFrame_Shared(i) == 1

\* `const allResults` and `let currentPage` of lines 48-49 are local to the call.
LoopFrame(i) == i

\* The configurations of the two invocations.
TwoConfigs ==
    {[BaseConfig EXCEPT !.actions = <<Extract("items", FALSE)>>,
                        !.maxPages = Num(2), !.nextButtonSelector = ".next"],
     [BaseConfig EXCEPT !.actions = <<Click(FALSE), Extract("items", FALSE)>>]}

\* The driver's answers to one executeAction call, without the answers that
\* differ only in what the driver was never asked.
ActionAnswers(action) ==
    {r \in EnvResponses(action, FALSE) :
        /\ r.wait # "" => r.op = ""
        /\ (r.wait # "" \/ r.op # "") => r.value \in {Undefined, Arr(<<>>), Num(0)}}

\* The answer of a driver that found no next element.
NoNextElement ==
    [lookup |-> "", found |-> FALSE, element |-> EnabledElement, click |-> "", signal |-> "delay",
     settle |-> ""]

\* The driver's answers to the first half of an iteration (lines 96-121):
\* goto, "" or the message of the rejected navigation (page 1 only); acts, one
\* answer per action. (next is not asked for in this half.)
PageAnswers(c, page) ==
    LET n == Len(c.actions)
        all == UNION {ActionAnswers(c.actions[k]) : k \in 1..n}
    IN  {[kind |-> "page", goto |-> g, acts |-> <<>>, next |-> NoNextElement] :
            g \in IF page = 1 THEN {"Navigation timeout of 30000 ms exceeded"} ELSE {}}
        \cup {[kind |-> "page", goto |-> "", acts |-> f, next |-> NoNextElement] :
                f \in {g \in [1..n -> all] : \A k \in 1..n : g[k] \in ActionAnswers(c.actions[k])}}

\* The driver's answers to the second half (lines 123-138): no next element, a
\* disabled one, or an enabled one whose click navigates.
NextAnswers ==
    {[kind |-> "next", goto |-> "", acts |-> <<>>, next |-> e] :
        e \in {NoNextElement,
               [NoNextElement EXCEPT !.found = TRUE, !.element = [EnabledElement EXCEPT !.ariaDisabled = "true"]],
               [NoNextElement EXCEPT !.found = TRUE, !.signal = "navigated"]}}

\* The keys of an object in insertion order, after a step that added at most
\* one key to it.
KeyOrder(order, data) ==
    LET new == DOMAIN data \ {order[k] : k \in 1..Len(order)}
    IN  IF new = {} THEN order ELSE Append(order, CHOOSE key \in new : TRUE)

RECURSIVE InterpretAll(_, _, _, _, _)
\* The for-loop of processPage (lines 211-251) from position k on: data and
\* the order of its keys afterwards, error as in InterpretAction, calls: how
\* many executeAction calls were made.
InterpretAll(data, order, k, c, acts) ==
    IF k > Len(c.actions) THEN [data |-> data, order |-> order, error |-> "", calls |-> 0]
    ELSE LET o == InterpretAction(data, k, c.actions[k], acts[k], c.saveScreenshots)
             called == IF o.dispatched THEN 1 ELSE 0
         IN  IF o.error # ""
             THEN [data |-> o.data, order |-> KeyOrder(order, o.data), error |-> o.error,
                   calls |-> called]
             ELSE LET rest == InterpretAll(o.data, KeyOrder(order, o.data), k + 1, c, acts)
                  IN  [rest EXCEPT !.calls = @ + called]

\* The variables of lines 48-49 as the call initialises them, with the order
\* of the keys of every result.
NewLoop == [currentPage |-> 1, allResults |-> <<>>, keys |-> <<>>]

\* Lines 96-121 and 140-163 for one iteration: the loop variables afterwards,
\* the view the page then shows, where the invocation continues ("next",
\* "loop" or "return") and the driver operations it issued.
ProcessIteration(c, loop, view, a) ==
    LET page == loop.currentPage
        caught(message, ops) ==
            LET after == IF StopsOnError(c, message) THEN page ELSE page + 1
            IN  [loop |-> [currentPage |-> after,
                           allResults |-> Append(loop.allResults, ErrorResult(page, message)),
                           keys |-> Append(loop.keys, <<"page", "error", "timestamp">>)],
                 view |-> view,
                 to |-> IF ~StopsOnError(c, message) /\ LoopContinues(c, after)
                        THEN "loop" ELSE "return",
                 ops |-> ops]
    IN  IF page = 1 /\ a.goto # ""
        THEN caught(a.goto, <<"goto">>)
        ELSE LET shown == IF page = 1 THEN 1 ELSE view
                 seed == [pageTitle |-> Str(SiteTitle(shown)),
                          currentUrl |-> Str(SiteUrl(c, shown))]
                 out == InterpretAll(seed, <<"pageTitle", "currentUrl">>, 1, c, a.acts)
                 ops == (IF page = 1 THEN <<"goto">> ELSE <<>>)
                        \o <<"title", "url">> \o [k \in 1..out.calls |-> "executeAction"]
             IN  IF out.error # ""
                 THEN [caught(out.error, ops) EXCEPT !.view = shown]
                 ELSE [loop |-> [currentPage |-> page,
                                 allResults |-> Append(loop.allResults,
                                                       PageResult(page, SiteUrl(c, shown), out.data)),
                                 keys |-> Append(loop.keys,
                                                 <<"page", "url", "timestamp">> \o
                                                 SelectSeq(out.order,
                                                           LAMBDA key : key \notin {"page", "url", "timestamp"}))],
                       view |-> shown,
                       to |-> "next",
                       ops |-> ops \o <<"url">>]

\* Lines 123-138 and 163 for one iteration, when the next element is looked
\* up; the same four fields.
NextIteration(c, loop, view, a) ==
    LET n == CheckAndNavigateToNextPage(a.next)
        ops == n.ops
    IN  IF n.hasNext
        THEN [loop |-> [loop EXCEPT !.currentPage = @ + 1],
              view |-> view + 1,
              to |-> IF LoopContinues(c, loop.currentPage + 1) THEN "loop" ELSE "return",
              ops |-> ops]
        ELSE [loop |-> loop, view |-> view, to |-> "return", ops |-> ops]

\* The object of the return statement, lines 168-174.
JobResultOf(results) ==
    [success |-> TRUE, totalPages |-> Len(results), results |-> results,
     summary |-> GenerateSummary(results)]

RECURSIVE AloneFrom(_, _, _, _, _)
\* The loop variables of an invocation that runs alone and hears the answers
\* heard[k], heard[k + 1], ... from the driver.
AloneFrom(c, loop, view, heard, k) ==
    IF k > Len(heard) THEN loop
    ELSE LET o == IF heard[k].kind = "page"
                  THEN ProcessIteration(c, loop, view, heard[k])
                  ELSE NextIteration(c, loop, view, heard[k])
         IN  AloneFrom(c, o.loop, o.view, heard, k + 1)

\* What an invocation that runs alone returns on these answers.
Alone(c, heard) == JobResultOf(AloneFrom(c, NewLoop, 0, heard, 1).allResults)

\* An invocation before its first step. launched: the browser it launched (0:
\* none), whose page is its `page`; heard, ops: the driver's answers to it and
\* the driver operations it issued, in order.
NewRun(c) ==
    [cfg |-> c, pc |-> "start", launched |-> 0, heard |-> <<>>, ops |-> <<>>,
     jobResult |-> [success |-> FALSE, totalPages |-> 0, results |-> <<>>,
                    summary |-> GenerateSummary(<<>>)]]

TwoInit ==
    /\ cfg = BaseConfig
    /\ pc = "idle"
    /\ browser = "null"
    /\ currentPage = 1
    /\ allResults = <<>>
    /\ scrapedData = EmptyObject
    /\ ai = 0
    /\ pageError = ""
    /\ fatalError = ""
    /\ outcome = "none"
    /\ thrown = ""
    /\ jobResult = [success |-> FALSE, totalPages |-> 0, results |-> <<>>,
                    summary |-> GenerateSummary(<<>>)]
    /\ site = 0
    /\ hist = NoHistory
    /\ runs \in [Invocations -> {NewRun(c) : c \in TwoConfigs}]
    /\ frames = [f \in Invocations |-> [browser |-> 0, loop |-> NewLoop]]
    /\ handles = <<>>
    /\ attempt = NoAttempt

\* Lines 22-49: the configuration passes validation and the call initialises
\* browser, allResults and currentPage.
TwoStart(i) ==
    /\ runs[i].pc = "start"
    /\ frames' = [frames EXCEPT ![BrowserFrame(i)].browser = 0, ![LoopFrame(i)].loop = NewLoop]
    /\ runs' = [runs EXCEPT ![i].pc = "launch"]
    /\ UNCHANGED <<handles, jobVars, attempt>>

\* Lines 68-90: the call launches a browser, keeps it in `browser` and opens
\* its page.
TwoLaunch(i) ==
    /\ runs[i].pc = "launch"
    /\ handles' = Append(handles, [open |-> TRUE, closedBy |-> <<>>, view |-> 0])
    /\ frames' = [frames EXCEPT ![BrowserFrame(i)].browser = Len(handles) + 1]
    /\ runs' = [runs EXCEPT ![i].pc = "loop", ![i].launched = Len(handles) + 1,
                            ![i].ops = @ \o <<"launch", "newPage">>]
    /\ UNCHANGED <<jobVars, attempt>>

\* Lines 96-121 and 140-163: the first half of an iteration on the call's page.
TwoProcess(i) ==
    /\ runs[i].pc = "loop"
    /\ LET c == runs[i].cfg
           h == runs[i].launched
           loop == frames[LoopFrame(i)].loop
       IN  \E a \in PageAnswers(c, loop.currentPage) :
              LET o == ProcessIteration(c, loop, handles[h].view, a)
              IN  /\ frames' = [frames EXCEPT ![LoopFrame(i)].loop = o.loop]
                  /\ handles' = [handles EXCEPT ![h].view = o.view]
                  /\ runs' = [runs EXCEPT
                                ![i].pc = IF o.to = "next" /\ ~ShouldCheckNext(c, o.loop.currentPage)
                                          THEN "return" ELSE o.to,
                                ![i].heard = Append(@, a),
                                ![i].ops = @ \o o.ops]
    /\ UNCHANGED <<jobVars, attempt>>

\* Lines 123-138 and 163: the next-page step on the call's page.
TwoNext(i) ==
    /\ runs[i].pc = "next"
    /\ LET c == runs[i].cfg
           h == runs[i].launched
           loop == frames[LoopFrame(i)].loop
       IN  \E a \in NextAnswers :
              LET o == NextIteration(c, loop, handles[h].view, a)
              IN  /\ frames' = [frames EXCEPT ![LoopFrame(i)].loop = o.loop]
                  /\ handles' = [handles EXCEPT ![h].view = o.view]
                  /\ runs' = [runs EXCEPT ![i].pc = o.to,
                                          ![i].heard = Append(@, a),
                                          ![i].ops = @ \o o.ops]
    /\ UNCHANGED <<jobVars, attempt>>

\* Lines 165-174: the call builds its result from allResults.
TwoReturn(i) ==
    /\ runs[i].pc = "return"
    /\ runs' = [runs EXCEPT ![i].pc = "finally",
                            ![i].jobResult = JobResultOf(frames[LoopFrame(i)].loop.allResults)]
    /\ UNCHANGED <<frames, handles, jobVars, attempt>>

\* Lines 193-198: the call closes the browser that `browser` holds, if any.
TwoClose(i) ==
    /\ runs[i].pc = "finally"
    /\ LET h == frames[BrowserFrame(i)].browser
       IN  IF h # 0
           THEN /\ handles' = [handles EXCEPT ![h].open = FALSE, ![h].closedBy = Append(@, i)]
                /\ runs' = [runs EXCEPT ![i].pc = "done", ![i].ops = Append(@, "close")]
           ELSE /\ runs' = [runs EXCEPT ![i].pc = "done"]
                /\ UNCHANGED handles
    /\ UNCHANGED <<frames, jobVars, attempt>>

TwoStep ==
    \E i \in Invocations :
        \/ TwoStart(i)
        \/ TwoLaunch(i)
        \/ TwoProcess(i)
        \/ TwoNext(i)
        \/ TwoReturn(i)
        \/ TwoClose(i)

TwoJobs == TwoInit /\ [][TwoStep]_vars

-----------------------------------------------------------------------------
(* Determinism and isolation of invocations *)

C16_InvocationsIsolated ==
    runs # <<>> =>
        \A i \in Invocations :
            LET h == runs[i].launched
            IN  /\ h # 0 =>
                      /\ \A j \in Invocations \ {i} : runs[j].launched # h
                      /\ frames[BrowserFrame(i)].browser = h
                      /\ runs[i].pc \in {"loop", "next", "return", "finally"} =>
                            (handles[h].open /\ handles[h].closedBy = <<>>)
                      /\ runs[i].pc = "done" =>
                            (~handles[h].open /\ handles[h].closedBy = <<i>>)
                /\ runs[i].pc \in {"loop", "next", "return"} =>
                      frames[LoopFrame(i)].loop = AloneFrom(runs[i].cfg, NewLoop, 0, runs[i].heard, 1)
                /\ runs[i].pc \in {"finally", "done"} =>
                      runs[i].jobResult = Alone(runs[i].cfg, runs[i].heard)

\* C16: the second invocation launched its browser first; both ran to their
\* end with different results, each having closed its own browser.
C16_Witness ==
    /\ runs # <<>>
    /\ runs[1].pc = "done" /\ runs[2].pc = "done"
    /\ runs[1].launched = 2 /\ runs[2].launched = 1
    /\ handles[2].closedBy = <<1>> /\ handles[1].closedBy = <<2>>
    /\ runs[1].jobResult.totalPages = 2
    /\ runs[2].jobResult.totalPages = 1
    /\ HasError(runs[2].jobResult.results[1])

-----------------------------------------------------------------------------
(* Pagination: ceiling, waits, navigation *)

\* The page ceiling: the configured maxPages, or 10 when maxPages is unset.
C21_Ceiling(c) == IF Truthy(c.maxPages) THEN c.maxPages.v ELSE DefaultMaxPages

\* C21: the next element is looked up only while the page index is below the
\* ceiling, and when the call has ended the number of clicks of the next
\* element is at most ceiling - 1 and the number of those that went through
\* is at most the number of results - 1.
C21_ClicksBelowCeiling ==
    /\ [][pc = "checkNext" /\ hist'.nextSeen # "none" =>
             currentPage < C21_Ceiling(cfg)]_vars
    /\ [](pc = "done" /\ outcome = "returned" =>
             /\ hist.clicks <= C21_Ceiling(cfg) - 1
             /\ hist.moves <= Len(jobResult.results) - 1)

\* C22: in every next-page step whose click went through, the race of the
\* three waits is the operation right after the click and the settle delay
\* the one right after the race, however the race ended; the step appends no
\* result and raises no error; when the settle delay has passed, the page
\* index goes up by one also when the race was rejected; and the step hands
\* over to the head of the loop, so that no action of the next page is
\* interpreted before the settle delay.
C22_SettleDelayAfterTheWaits ==
    [][(pc = "checkNext" /\ Len(hist'.nextOps) > 4) =>
          /\ Len(hist'.nextOps) >= 6
          /\ hist'.nextOps[4] = "click"
          /\ hist'.nextOps[5] = "race"
          /\ hist'.nextOps[6] = "settle"
          /\ hist'.signal \in {"navigated", "urlChanged", "delay", "failed"}
          /\ allResults' = allResults
          /\ hist'.catches = hist.catches
          /\ pageError' = pageError /\ fatalError' = fatalError
          /\ hist'.nextSeen = "enabled" =>
                /\ currentPage' = currentPage + 1
                /\ hist'.moves = hist.moves + 1
          /\ pc' \in {"loop", "return"}
          /\ ai' = ai /\ scrapedData' = scrapedData /\ hist'.processed = hist.processed]_vars

\* C22: the race of the waits was rejected after the click on page 1; the
\* settle delay was applied and the loop is about to start page 2.
C22_Witness ==
    /\ pc = "loop"
    /\ currentPage = 2
    /\ hist.signal = "failed"
    /\ hist.nextOps = <<"$", "evaluate", "url", "click", "race", "settle", "url">>
    /\ Len(allResults) = 1
    /\ ~HasError(allResults[1])
    /\ hist.catches = 0

\* The operations of a navigation to the target URL whose waits all resolved.
C23_FullNavigation(c) ==
    <<"goto">>
    \o (IF c.waitSelector # "" THEN <<"waitForSelector">> ELSE <<>>)
    \o (IF c.waitDelay # 0 THEN <<"waitForTimeout">> ELSE <<>>)

\* C23: page.goto is called only at the head of an iteration whose page index
\* is 1 and only when it was not called before, so at most once; and while
\* the entries of the action list are interpreted in that iteration, the
\* operations issued for the navigation are goto, then the wait for the global
\* selector when one is configured, then the global delay when one is
\* configured.
C23_NavigatesOncePageOneThenWaits ==
    /\ [][hist'.gotos # hist.gotos =>
             /\ pc = "loop" /\ currentPage = 1
             /\ hist.gotos = 0 /\ hist'.gotos = 1
             /\ hist.processed = <<>>]_vars
    /\ [](pc \in {"process", "actions"} /\ currentPage = 1 =>
             /\ hist.gotos = 1
             /\ hist.navOps = C23_FullNavigation(cfg))
    /\ [](hist.navOps # <<>> => hist.navOps[1] = "goto")

\* C23: with a global selector and a global delay configured, the first
\* action of page 1 was interpreted after goto, the wait and the delay.
C23_Witness ==
    /\ pc = "actions"
    /\ currentPage = 1
    /\ hist.dispatched = <<1>>
    /\ cfg.waitSelector # "" /\ cfg.waitDelay # 0
    /\ hist.navOps = <<"goto", "waitForSelector", "waitForTimeout">>

-----------------------------------------------------------------------------
(* Summary counts *)

\* C24: in every returned JobResult, totalPages is the number of results,
\* successfulPages + errorPages = totalPages with errorPages the number of
\* results that carry a page-level error, and totalErrors is the number of
\* action-error records produced over the whole job, those of the pages that a
\* critical action aborted included.
C24_SummaryCounts ==
    (pc = "done" /\ outcome = "returned") =>
        LET r == jobResult.results
            s == jobResult.summary
        IN  /\ s.totalPages = Len(r)
            /\ s.successfulPages + s.errorPages = s.totalPages
            /\ s.errorPages = Cardinality({i \in 1..Len(r) : HasError(r[i])})
            /\ s.totalErrors = hist.failures

\* The lengths of the sequences held by the successful results under their
\* non-structural keys, summed over these results.
C25_ItemsOfSuccessfulPages(results) ==
    LET total[i \in 0..Len(results)] ==
            IF i = 0 THEN 0
            ELSE total[i - 1] + (IF HasError(results[i]) THEN 0
                                 ELSE ItemsOfPage(results[i], DOMAIN results[i] \ StructuralKeys))
    IN  total[Len(results)]

\* The first result without a page-level error.
C25_FirstSuccessful(results) ==
    results[CHOOSE i \in 1..Len(results) :
                /\ ~HasError(results[i])
                /\ \A j \in 1..(i - 1) : HasError(results[j])]

\* C25: in every returned JobResult with a successful page,
\* summary.totalItemsExtracted is the sum over all successful pages of the
\* lengths of the sequences held under the non-structural fields of that page,
\* whether or not the first successful page has the field; and
\* summary.dataTypes is the set of non-structural field names of the first
\* successful page.
C25_ItemsOfEveryPageCounted ==
    (pc = "done" /\ outcome = "returned" /\ jobResult.summary.hasData) =>
        /\ jobResult.summary.totalItemsExtracted = C25_ItemsOfSuccessfulPages(jobResult.results)
        /\ jobResult.summary.dataTypes
              = DOMAIN C25_FirstSuccessful(jobResult.results) \ StructuralKeys

-----------------------------------------------------------------------------
(* Termination *)

\* The page ceiling: maxPages when it is a positive number, else 10.
C26_Ceiling(c) == IF c.maxPages.t = "number" /\ c.maxPages.v >= 1 THEN c.maxPages.v ELSE 10

\* C26: the page index never changes but by going up by one, and it goes up
\* in every iteration after which the loop goes on; the loop completes at most
\* ceiling iterations and the results never hold more than ceiling entries;
\* and, every awaited operation settling, the call eventually returns a
\* JobResult or throws, the browser it launched closed.
C26_InvocationTerminates ==
    /\ [][/\ currentPage' # currentPage => currentPage' = currentPage + 1
          /\ (hist'.iterations # hist.iterations /\ pc' = "loop") =>
                currentPage' = currentPage + 1]_vars
    /\ [](/\ hist.iterations <= C26_Ceiling(cfg)
          /\ Len(allResults) <= C26_Ceiling(cfg)
          /\ Len(allResults) <= hist.iterations + 1)
    /\ <>[](/\ pc = "done"
            /\ outcome \in {"returned", "threw"}
            /\ outcome = "returned" => jobResult.results = allResults
            /\ browser \in {"null", "closed"}
            /\ browser = "null" => hist.launches = 0 \/ fatalError # "")

\* C26: a paginated job without a configured ceiling ended after ten
\* iterations, with ten results and its browser closed.
C26_Witness ==
    /\ pc = "done"
    /\ outcome = "returned"
    /\ cfg.maxPages = Undefined
    /\ hist.iterations = 10
    /\ jobResult.totalPages = 10
    /\ browser = "closed"

-----------------------------------------------------------------------------
(* Diagnostic screenshots *)

\* A step in which a diagnostic screenshot was rejected.
C27_ShotFailed == hist'.shotsFailed = hist.shotsFailed + 1

\* C27: a rejected diagnostic screenshot changes nothing else. After an action
\* error: the record of the failure is the last of the page's error list and
\* the page is aborted exactly when the action is critical, else the next
\* entry is interpreted. After a page error: the error result is appended and
\* the loop is left or continued as the message and the page index decide.
\* At the job level: the fatal error stays the one to be re-raised, which it
\* is when the call ends (unless browser.close() itself fails).
C27_ScreenshotFailureChangesNothing ==
    /\ [][(pc = "actions" /\ C27_ShotFailed) =>
             LET action == cfg.actions[ai]
                 res == ExecuteAction(action, hist'.response)
                 errors == scrapedData'["errors"].v
             IN  /\ res.kind = "throw"
                 /\ errors # <<>>
                 /\ errors[Len(errors)] = ErrorRecord(ai, action, res.message)
                 /\ IF action.critical
                    THEN pc' = "pageCatch" /\ pageError' = res.message
                    ELSE pc' = "actions" /\ ai' = ai + 1 /\ pageError' = pageError
                 /\ allResults' = allResults /\ fatalError' = fatalError]_vars
    /\ [][(pc = "pageCatch" /\ C27_ShotFailed) =>
             /\ allResults' = Append(allResults, ErrorResult(currentPage, pageError))
             /\ fatalError' = fatalError
             /\ IF cfg.nextButtonSelector # "" /\ Includes(Chars(pageError), Chars("timeout"))
                THEN pc' = "return" /\ currentPage' = currentPage
                ELSE /\ currentPage' = currentPage + 1
                     /\ pc' = IF cfg.nextButtonSelector # "" /\ currentPage + 1 <= C26_Ceiling(cfg)
                              THEN "loop" ELSE "return"]_vars
    /\ [][(pc = "fatal" /\ C27_ShotFailed) =>
             /\ fatalError' = fatalError /\ fatalError # ""
             /\ pc' = "finally"
             /\ allResults' = allResults /\ browser' = browser]_vars
    /\ [](pc = "done" /\ fatalError # "" =>
             /\ outcome = "threw"
             /\ thrown = fatalError \/ thrown = "Browser close failed")

\* C27: with screenshots enabled, a non-critical and then a critical action
\* failed on the only page and all three screenshots were rejected: the page
\* was aborted with its error result and the job returned.
C27_Witness ==
    /\ pc = "done"
    /\ outcome = "returned"
    /\ cfg.saveScreenshots
    /\ hist.failures = 2
    /\ hist.shots = 3 /\ hist.shotsFailed = 3
    /\ Len(jobResult.results) = 1
    /\ HasError(jobResult.results[1])

-----------------------------------------------------------------------------
(* Page index and browser page *)

\* C28: every processPage call is made on a view the browser navigated to: the
\* view of the target URL for page index 1, and for a higher index the view
\* reached by a next-element click that went through after the previous call;
\* so no call is made on a blank page and no view is interpreted under two
\* page indices.
C28_ProcessedOnlyAfterNavigation ==
    \A k \in 1..Len(hist.processed) :
        LET p == hist.processed[k]
        IN  /\ p.view >= 1
            /\ p.index = 1 => (p.view = 1 /\ hist.gotos = 1 /\ k = 1)
            /\ p.index > 1 =>
                  /\ k > 1
                  /\ p.view = hist.processed[k - 1].view + 1
            /\ \A j \in 1..(k - 1) :
                  hist.processed[j].index # p.index => hist.processed[j].view # p.view

\* C29: a next-page step in which the lookup, the inspection or the click of
\* the next element fails leaves the results, the error records, the pending
\* errors and the page index as they are and leaves the loop; nothing is
\* processed or appended afterwards; and the call returns success = true with
\* these results (unless browser.close() itself fails).
C29_NextPageFailureAbsorbed ==
    /\ [][(pc = "checkNext" /\ hist'.nextSeen = "failed") =>
             /\ allResults' = allResults
             /\ scrapedData' = scrapedData
             /\ hist'.catches = hist.catches /\ hist'.failures = hist.failures
             /\ pageError' = pageError /\ fatalError' = fatalError
             /\ currentPage' = currentPage
             /\ pc' = "return"]_vars
    /\ [][hist.nextSeen = "failed" =>
             /\ allResults' = allResults
             /\ hist'.processed = hist.processed
             /\ fatalError' = "" /\ pageError' = ""
             /\ pc' \in {"finally", "done"}]_vars
    /\ [](pc = "done" /\ hist.nextSeen = "failed" =>
             \/ /\ outcome = "returned"
                /\ jobResult.success
                /\ jobResult.results = allResults
                /\ jobResult.summary.errorPages
                      = Cardinality({i \in 1..Len(allResults) : HasError(allResults[i])})
             \/ thrown = "Browser close failed")

\* C29: the click of the next element was rejected on page 1; the job returned
\* its single, successful result.
C29_Witness ==
    /\ pc = "done"
    /\ outcome = "returned"
    /\ hist.nextSeen = "failed"
    /\ hist.nextOps = <<"$", "evaluate", "url", "click">>
    /\ jobResult.success
    /\ jobResult.totalPages = 1
    /\ jobResult.summary.errorPages = 0
    /\ jobResult.summary.totalErrors = 0

-----------------------------------------------------------------------------
(* Action names and structural fields *)

-----------------------------------------------------------------------------
(* The queue worker: one processing attempt of a job *)

\* The job names the queue may hand to the worker; the last has no processor.
JobNames == {"doubleNumbers", "scrapeWebPage", "sendReport"}

\* What a doubleNumbers job may carry as job.data.input.
SampleInputs == {Undefined, Arr(<<Num(1), Num(2)>>), Arr(<<Num(1), Str("x")>>)}

\* sampleProcessor (src/jobs/processors/sampleProcessor.js): the doubled
\* numbers, or the error of the first check that fails.
SampleProcessor(input) ==
    IF ~IsArray(input) THEN Throws("Input must be an array.")
    ELSE IF \E k \in 1..Len(input.v) : TypeOf(input.v[k]) # "number"
         THEN LET k == CHOOSE i \in 1..Len(input.v) :
                          /\ TypeOf(input.v[i]) # "number"
                          /\ \A j \in 1..(i - 1) : TypeOf(input.v[j]) = "number"
              IN  Throws("Invalid value: " \o TemplateText(input.v[k]))
         ELSE Returns(Obj([result |-> Arr([k \in 1..Len(input.v) |-> Num(2 * input.v[k].v)])]))

\* The job.data of the scrapeWebPage jobs: a paginated job whose critical
\* action may fail, and a job whose url fails validation.
WorkerConfigs ==
    {[BaseConfig EXCEPT !.actions = <<Extract("items", FALSE), Click(TRUE)>>,
                        !.maxPages = Num(2), !.nextButtonSelector = ".next"],
     [BaseConfig EXCEPT !.url = Str("a.io")]}

\* The message of a store operation that is rejected.
StoreFailure == "Can't reach database server"

\* The variables of the invocation but its position.
calleeVars == <<cfg, browser, currentPage, allResults, scrapedData, ai, pageError,
                fatalError, outcome, thrown, jobResult, site, hist>>

\* A job was taken from the queue: the callback of line 98 is about to run and
\* no processor has been called.
WorkerInit ==
    /\ attempt \in {NewAttempt("doubleNumbers", i) : i \in SampleInputs}
                   \cup {NewAttempt(n, Undefined) : n \in JobNames \ {"doubleNumbers"}}
    /\ cfg \in IF attempt.name = "scrapeWebPage" THEN WorkerConfigs ELSE {BaseConfig}
    /\ pc = "idle"
    /\ browser = "null"
    /\ currentPage = 1
    /\ allResults = <<>>
    /\ scrapedData = EmptyObject
    /\ ai = 0
    /\ pageError = ""
    /\ fatalError = ""
    /\ outcome = "none"
    /\ thrown = ""
    /\ jobResult = [success |-> FALSE, totalPages |-> 0, results |-> <<>>,
                    summary |-> GenerateSummary(<<>>)]
    /\ site = 0
    /\ hist = NoHistory
    /\ runs = <<>>
    /\ frames = <<>>
    /\ handles = <<>>

\* Lines 109-118: the routing on job.name. sampleProcessor has no suspension
\* point and ends within the step; puppeteerProcessor is entered; any other
\* name throws at line 117.
WorkerRoute ==
    /\ attempt.pc = "route"
    /\ IF attempt.name = "doubleNumbers"
       THEN LET out == SampleProcessor(attempt.input)
            IN  /\ attempt' = IF out.kind = "return"
                              THEN [attempt EXCEPT !.ran = "sampleProcessor", !.result = TRUE,
                                                   !.pc = "markCompleted"]
                              ELSE [attempt EXCEPT !.ran = "sampleProcessor", !.err = out.message,
                                                   !.pc = "markFailed"]
                /\ UNCHANGED pc
       ELSE IF attempt.name = "scrapeWebPage"
       THEN /\ attempt' = [attempt EXCEPT !.ran = "puppeteerProcessor", !.pc = "processing"]
            /\ pc' = "start"
       ELSE /\ attempt' = [attempt EXCEPT !.err = "Unknown job name: " \o attempt.name,
                                          !.pc = "markFailed"]
            /\ UNCHANGED pc
    /\ UNCHANGED <<calleeVars, runs, frames, handles>>

\* Line 114: the steps of puppeteerProcessor while the callback awaits it.
WorkerProcessor ==
    /\ attempt.pc = "processing"
    /\ Next

\* Line 114: the awaited call has ended; its result goes to `processorResult`,
\* its error to the catch of line 142.
WorkerResume ==
    /\ attempt.pc = "processing"
    /\ pc = "done"
    /\ attempt' = IF outcome = "returned"
                  THEN [attempt EXCEPT !.result = TRUE, !.pc = "markCompleted"]
                  ELSE [attempt EXCEPT !.err = thrown, !.pc = "markFailed"]
    /\ UNCHANGED <<pc, calleeVars, runs, frames, handles>>

\* Lines 121-128: the job's status is set to 'completed'; a rejected update
\* goes to the catch.
WorkerMarkCompleted ==
    /\ attempt.pc = "markCompleted"
    /\ \E ok \in BOOLEAN :
          attempt' = IF ok
                     THEN [attempt EXCEPT !.writes = Append(@, "completed"), !.pc = "logResult"]
                     ELSE [attempt EXCEPT !.err = StoreFailure, !.pc = "markFailed"]
    /\ UNCHANGED <<pc, calleeVars, runs, frames, handles>>

\* Lines 130-141: the ProcessingResult row is created and the callback
\* returns; a rejected create goes to the catch.
WorkerLogResult ==
    /\ attempt.pc = "logResult"
    /\ \E ok \in BOOLEAN :
          attempt' = IF ok
                     THEN [attempt EXCEPT !.results = @ + 1, !.ended = "returned", !.pc = "done"]
                     ELSE [attempt EXCEPT !.err = StoreFailure, !.pc = "markFailed"]
    /\ UNCHANGED <<pc, calleeVars, runs, frames, handles>>

\* Lines 142-151: the catch sets the job's status to 'failed'; a rejected
\* update leaves the callback with that rejection.
WorkerMarkFailed ==
    /\ attempt.pc = "markFailed"
    /\ \E ok \in BOOLEAN :
          attempt' = IF ok
                     THEN [attempt EXCEPT !.writes = Append(@, "failed"), !.pc = "logError"]
                     ELSE [attempt EXCEPT !.ended = "threw", !.thrown = StoreFailure, !.pc = "done"]
    /\ UNCHANGED <<pc, calleeVars, runs, frames, handles>>

\* Lines 153-164: the ErrorLog row is created and the caught error is thrown
\* again; a rejected create leaves the callback with that rejection.
WorkerLogError ==
    /\ attempt.pc = "logError"
    /\ \E ok \in BOOLEAN :
          attempt' = IF ok
                     THEN [attempt EXCEPT !.errorLogs = @ + 1, !.ended = "threw",
                                          !.thrown = attempt.err, !.pc = "done"]
                     ELSE [attempt EXCEPT !.ended = "threw", !.thrown = StoreFailure, !.pc = "done"]
    /\ UNCHANGED <<pc, calleeVars, runs, frames, handles>>

WorkerStep ==
    \/ WorkerRoute
    \/ WorkerProcessor
    \/ WorkerResume
    \/ WorkerMarkCompleted
    \/ WorkerLogResult
    \/ WorkerMarkFailed
    \/ WorkerLogError

Worker == WorkerInit /\ [][WorkerStep]_vars

\* The positions of a value among the status writes.
C31_WrittenAt(status) == {k \in 1..Len(attempt.writes) : attempt.writes[k] = status}

\* C31: within one attempt the status is written as 'completed' only when a
\* processor returned a result; once the attempt has ended, a status written
\* as 'failed' comes with an ErrorLog row and with the caught error thrown
\* again; no write of 'failed' follows a write of 'completed'; and a job with
\* an unknown name has no processor run and ends marked 'failed' (unless the
\* store rejected that very write).
C31_StatusWrittenOnce ==
    /\ C31_WrittenAt("completed") # {} => (attempt.result /\ attempt.ran # "")
    /\ (attempt.pc = "done" /\ C31_WrittenAt("failed") # {}) =>
          /\ attempt.errorLogs = 1
          /\ attempt.ended = "threw"
          /\ attempt.thrown = attempt.err
    /\ \A k \in C31_WrittenAt("completed") : \A l \in C31_WrittenAt("failed") : l < k
    /\ attempt.name \notin {"", "doubleNumbers", "scrapeWebPage"} =>
          /\ attempt.ran = ""
          /\ pc = "idle"
          /\ C31_WrittenAt("completed") = {}
          /\ attempt.pc = "done" =>
                \/ attempt.writes = <<"failed">>
                \/ attempt.writes = <<>> /\ attempt.thrown = StoreFailure

====
